---------------------------- MODULE Spec2Model ----------------------------
(***************************************************************************)
(* Production-plan workbook generation (generateExcelFile): the schedule   *)
(* expander, the LPB target distribution and the four sheet builders.      *)
(*                                                                         *)
(* Numbers are exact rationals [n, d] in lowest terms (the code computes   *)
(* in IEEE doubles; the properties below are the real-arithmetic ones).    *)
(* A formula text is a sequence of lexical tokens, the placeholder being   *)
(* the three tokens "{", "rowIndex", "}".  A date text is the local wall   *)
(* clock [day, hour] of January 2024 it denotes, or an unparseable text.   *)
(* The chat components around the generator (messages, chat sessions and  *)
(* their storage) are a specification of their own, SpecChat.             *)
(***************************************************************************)
EXTENDS Integers, Sequences, FiniteSets, TLC

VARIABLES projectData, uploadedData, outcome, error, scheduleItems, weights,
          itemsWithTargets, workbook, buffer, messages,
          calls, workbooks,
          component, sessions, activeSessionId, stored, deletedSessionsRef,
          pending, isTyping, isStreaming, streamInterval, chatRef, now

\* the state of the chat components besides their messages
chatVars == <<component, sessions, activeSessionId, stored, deletedSessionsRef,
              pending, isTyping, isStreaming, streamInterval, chatRef, now>>

\* the state of a generation call
generationVars == <<projectData, uploadedData, outcome, error, scheduleItems, weights,
                    itemsWithTargets, workbook, buffer, calls, workbooks>>

vars == <<projectData, uploadedData, outcome, error, scheduleItems, weights,
          itemsWithTargets, workbook, buffer, messages, calls, workbooks,
          component, sessions, activeSessionId, stored, deletedSessionsRef,
          pending, isTyping, isStreaming, streamInterval, chatRef, now>>

\* no chat component is mounted: the generation is looked at on its own
NoChat ==
    /\ component = "none"
    /\ sessions = <<>>
    /\ activeSessionId = 0
    /\ stored = <<>>
    /\ deletedSessionsRef = {}
    /\ pending = <<>>
    /\ isTyping = FALSE
    /\ isStreaming = FALSE
    /\ streamInterval = <<>>
    /\ chatRef = "null"
    /\ now = 0

---------------------------------------------------------------------------
(* Bounds of the model *)

MaxDay == 5
MaxRes == 2
MaxActual == 2
MaxTemplateLen == 6
MaxNameLen == 40
MaxPeriod == 4
MaxMerge == 2
MaxCalls == 2
MaxCols == 3
MaxNow == 5
MaxMessages == 2

---------------------------------------------------------------------------
(* Exact rational arithmetic *)

Abs(x) == IF x < 0 THEN 0 - x ELSE x

RECURSIVE GCD(_, _)
GCD(a, b) == IF b = 0 THEN a ELSE GCD(b, a % b)

\* n/d in lowest terms with a positive denominator; d = 0 is NaN/Infinity
R(n, d) ==
    IF d = 0 THEN [n |-> 0, d |-> 0]
    ELSE LET g == GCD(Abs(n), Abs(d))
             s == IF d < 0 THEN 0 - 1 ELSE 1
         IN  [n |-> (s * n) \div g, d |-> (s * d) \div g]

RAdd(a, b) == IF a.d = 0 \/ b.d = 0 THEN R(0, 0) ELSE R(a.n * b.d + b.n * a.d, a.d * b.d)
RSub(a, b) == IF a.d = 0 \/ b.d = 0 THEN R(0, 0) ELSE R(a.n * b.d - b.n * a.d, a.d * b.d)
RMul(a, b) == IF a.d = 0 \/ b.d = 0 THEN R(0, 0) ELSE R(a.n * b.n, a.d * b.d)
RDiv(a, b) == IF a.d = 0 \/ b.d = 0 THEN R(0, 0) ELSE R(a.n * b.d, a.d * b.n)
RLt(a, b)  == a.d # 0 /\ b.d # 0 /\ a.n * b.d < b.n * a.d
RLe(a, b)  == a.d # 0 /\ b.d # 0 /\ a.n * b.d <= b.n * a.d
RFinite(a) == a.d # 0

RECURSIVE RSum(_)
RSum(s) == IF s = <<>> THEN R(0, 1) ELSE RAdd(RSum(SubSeq(s, 1, Len(s) - 1)), s[Len(s)])

---------------------------------------------------------------------------
(* JavaScript values held in object fields and cells *)

Undefined == [t |-> "undefined", r |-> R(0, 1), s |-> ""]
Null      == [t |-> "null", r |-> R(0, 1), s |-> ""]
Num(r)    == [t |-> "number", r |-> r, s |-> ""]
Str(s)    == [t |-> "string", r |-> R(0, 1), s |-> s]
DateValue(time) == [t |-> "date", r |-> R(time, 1), s |-> ""]

\* ToBoolean(v): undefined, null, 0 and NaN are falsy
Truthy(v) == v.t = "number" /\ v.r.d # 0 /\ v.r.n # 0

\* obj[key], undefined when the object has no such property
Get(obj, key) == IF key \in DOMAIN obj THEN obj[key] ELSE Undefined

\* obj[key] = v
Put(obj, key, v) == [k \in DOMAIN obj \cup {key} |-> IF k = key THEN v ELSE obj[k]]

---------------------------------------------------------------------------
(* Dates *)

\* the days of January 2024 the inputs name (Fri 5th onward, so that a range
\* crosses the Saturday/Sunday week boundary)
DayNumbers == 5 .. (4 + MaxDay)
HoursOfDay == {0, 12}

InvalidDateText == [ok |-> FALSE, day |-> 0, hour |-> 0]
DateText(day, hour) == [ok |-> TRUE, day |-> day, hour |-> hour]
DateTexts == {DateText(d, h) : d \in DayNumbers, h \in HoursOfDay} \cup {InvalidDateText}

\* new Date(text): a time in hours, or Invalid Date
NewDate(text) == [valid |-> text.ok, time |-> IF text.ok THEN text.day * 24 + text.hour ELSE 0]

\* a check that lets every Date through
isValidAlways(date) == TRUE

isValid(date) == date.valid

startOfDay(time) == (time \div 24) * 24

isSameDay(a, b) == startOfDay(a.time) = startOfDay(b.time)

\* the loop stopping before the end instant is reached
RECURSIVE DaysFromExclusive(_, _)
DaysFromExclusive(time, endTime) ==
    IF time < endTime THEN <<time>> \o DaysFromExclusive(time + 24, endTime) ELSE <<>>

\* midnights from..upto in steps of one day (the while loop of eachDayOfInterval)
RECURSIVE DaysFrom(_, _)
DaysFrom(time, endTime) ==
    IF time <= endTime THEN <<time>> \o DaysFrom(time + 24, endTime) ELSE <<>>

Reverse(s) == [i \in 1 .. Len(s) |-> s[Len(s) + 1 - i]]

\* date-fns 4 eachDayOfInterval: a start after the end yields the days in
\* descending order
eachDayOfInterval(start, end) ==
    LET reversed == start.time > end.time
        endTime  == IF reversed THEN start.time ELSE end.time
        date     == startOfDay(IF reversed THEN end.time ELSE start.time)
        dates    == DaysFrom(date, endTime)
    IN  IF reversed THEN Reverse(dates) ELSE dates

---------------------------------------------------------------------------
(* Strings *)

Names == {"A", "B"}

toLowerCase(s) == CASE s = "A" -> "a" [] s = "B" -> "b" [] OTHER -> s

---------------------------------------------------------------------------
(* Schedule expansion *)

\* the test of actualData.find for one (day, resource) pair
matchesPair(item, day, resource) ==
    LET itemDate == NewDate(item.date)
    IN  /\ isValid(itemDate)
        /\ isSameDay(itemDate, [valid |-> TRUE, time |-> day])
        /\ toLowerCase(item.name) = toLowerCase(resource)

\* Array.prototype.find from position i: the index of the first element
\* passing the test, 0 when there is none
RECURSIVE findFrom(_, _, _, _)
findFrom(items, day, resource, i) ==
    IF i > Len(items) THEN 0
    ELSE IF matchesPair(items[i], day, resource) THEN i
    ELSE findFrom(items, day, resource, i + 1)

actualMatchIndex(pd, day, resource) ==
    IF pd.hasActualData THEN findFrom(pd.actualData, day, resource, 1) ELSE 0

\* item[col.key] = actualMatch[col.key] || null, for the columns from i on
RECURSIVE CopyDaily(_, _, _, _)
CopyDaily(fields, cols, match, i) ==
    IF i > Len(cols) THEN fields
    ELSE LET v == Get(match.fields, cols[i].key)
         IN  CopyDaily(Put(fields, cols[i].key, IF Truthy(v) THEN v ELSE Null),
                       cols, match, i + 1)

scheduleItem(pd, day, resource) ==
    LET m     == actualMatchIndex(pd, day, resource)
        match == pd.actualData[m]
        base  == [k \in {"actual"} |-> IF m # 0 THEN Get(match.fields, "actual") ELSE Null]
    IN  [date   |-> day,
         name   |-> resource,
         fields |-> IF m # 0 THEN CopyDaily(base, pd.dailyColumns, match, 1) ELSE base]

\* projectData.resources.forEach(resource => scheduleItems.push(item)), from
\* the r-th resource on
RECURSIVE forEachResource(_, _, _, _)
forEachResource(pd, day, r, items) ==
    IF r > Len(pd.resources) THEN items
    ELSE forEachResource(pd, day, r + 1,
                         Append(items, scheduleItem(pd, day, pd.resources[r])))

\* days.forEach(day => ...), from the d-th day on
RECURSIVE forEachDay(_, _, _, _)
forEachDay(pd, days, d, items) ==
    IF d > Len(days) THEN items
    ELSE forEachDay(pd, days, d + 1, forEachResource(pd, days[d], 1, items))

\* the two loops nested the other way round
expandScheduleResourceMajor(pd, days) ==
    [i \in 1 .. Len(days) * Len(pd.resources) |->
        scheduleItem(pd, days[((i - 1) % Len(days)) + 1],
                     pd.resources[((i - 1) \div Len(days)) + 1])]

expandSchedule(pd, days) == forEachDay(pd, days, 1, <<>>)

---------------------------------------------------------------------------
(* LPB target distribution *)

\* the growth phase interpolating over a quarter instead of a half
weightAtSteepGrowth(index, totalItems) ==
    LET t == RDiv(R(index, 1), R(IF totalItems - 1 # 0 THEN totalItems - 1 ELSE 1, 1))
    IN  IF RLt(t, R(25, 100))
        THEN RAdd(R(3, 10), RMul(RSub(R(6, 10), R(3, 10)), RDiv(t, R(25, 100))))
        ELSE IF RLt(t, R(75, 100))
        THEN RAdd(R(6, 10), RMul(RSub(R(10, 10), R(6, 10)), RDiv(RSub(t, R(25, 100)), R(25, 100))))
        ELSE R(10, 10)

\* the ramp phase adding the end value instead of the rise
weightAtSteepRamp(index, totalItems) ==
    LET t == RDiv(R(index, 1), R(IF totalItems - 1 # 0 THEN totalItems - 1 ELSE 1, 1))
    IN  IF RLt(t, R(25, 100))
        THEN RAdd(R(3, 10), RMul(R(6, 10), RDiv(t, R(25, 100))))
        ELSE IF RLt(t, R(75, 100))
        THEN RAdd(R(6, 10), RMul(RSub(R(10, 10), R(6, 10)), RDiv(RSub(t, R(25, 100)), R(5, 10))))
        ELSE R(10, 10)

\* the position normalised by totalItems instead of totalItems - 1
weightAtOffByOne(index, totalItems) ==
    LET t == RDiv(R(index, 1), R(totalItems, 1))
    IN  IF RLt(t, R(25, 100))
        THEN RAdd(R(3, 10), RMul(RSub(R(6, 10), R(3, 10)), RDiv(t, R(25, 100))))
        ELSE IF RLt(t, R(75, 100))
        THEN RAdd(R(6, 10), RMul(RSub(R(10, 10), R(6, 10)), RDiv(RSub(t, R(25, 100)), R(5, 10))))
        ELSE R(10, 10)

\* weight of the item at 0-based position index among totalItems
weightAt(index, totalItems) ==
    LET t == RDiv(R(index, 1), R(IF totalItems - 1 # 0 THEN totalItems - 1 ELSE 1, 1))
    IN  IF RLt(t, R(25, 100))
        THEN RAdd(R(3, 10), RMul(RSub(R(6, 10), R(3, 10)), RDiv(t, R(25, 100))))
        ELSE IF RLt(t, R(75, 100))
        THEN RAdd(R(6, 10), RMul(RSub(R(10, 10), R(6, 10)), RDiv(RSub(t, R(25, 100)), R(5, 10))))
        ELSE R(10, 10)

computeWeights(items) == [i \in 1 .. Len(items) |-> weightAt(i - 1, Len(items))]

\* the weight applied to the goal without normalisation
targetOfUnnormalized(w, totalWeight, goal) == RMul(w, R(goal, 1))

targetOf(w, totalWeight, goal) == RMul(RDiv(w, totalWeight), R(goal, 1))

\* the weights normalised by the number of items instead of their sum
withTargetsByCount(items, ws, goal) ==
    [i \in 1 .. Len(items) |->
        [items[i] EXCEPT !.fields = Put(@, "target", Num(targetOf(ws[i], R(Len(items), 1), goal)))]]

withTargets(items, ws, goal) ==
    LET totalWeight == RSum(ws)
    IN  [i \in 1 .. Len(items) |->
            [items[i] EXCEPT !.fields = Put(@, "target", Num(targetOf(ws[i], totalWeight, goal)))]]

---------------------------------------------------------------------------
(* Formula texts *)

Placeholder == <<"{", "rowIndex", "}">>

IsPrefix(p, s) == Len(p) <= Len(s) /\ SubSeq(s, 1, Len(p)) = p

\* the pattern without the g flag: only the first occurrence is replaced
RECURSIVE replaceRowIndexFirstOnly(_, _)
replaceRowIndexFirstOnly(formula, rowIndex) ==
    IF formula = <<>> THEN <<>>
    ELSE IF IsPrefix(Placeholder, formula)
    THEN <<ToString(rowIndex)>> \o SubSeq(formula, Len(Placeholder) + 1, Len(formula))
    ELSE <<Head(formula)>> \o replaceRowIndexFirstOnly(Tail(formula), rowIndex)

\* formula.replace(/{rowIndex}/g, rowIndex.toString())
RECURSIVE replaceRowIndex(_, _)
replaceRowIndex(formula, rowIndex) ==
    IF formula = <<>> THEN <<>>
    ELSE IF IsPrefix(Placeholder, formula)
    THEN <<ToString(rowIndex)>>
             \o replaceRowIndex(SubSeq(formula, Len(Placeholder) + 1, Len(formula)), rowIndex)
    ELSE <<Head(formula)>> \o replaceRowIndex(Tail(formula), rowIndex)

\* an optional formula property is <<>> (absent) or <<text>>; absent and the
\* empty text are falsy
HasFormula(col) == col.formula # <<>> /\ col.formula[1] # <<>>

Letters == <<"A", "B", "C", "D", "E", "F", "G", "H", "I", "J", "K", "L", "M",
             "N", "O", "P", "Q", "R", "S", "T", "U", "V", "W", "X", "Y", "Z">>

RECURSIVE getColumnLetter(_)
getColumnLetter(colIndex) ==
    IF colIndex > 0
    THEN LET temp == (colIndex - 1) % 26
         IN  getColumnLetter((colIndex - temp) \div 26) \o <<Letters[temp + 1]>>
    ELSE <<>>

---------------------------------------------------------------------------
(* Sheet names: texts are sequences of characters *)

IllegalSheetChars == {"[", "]", ":", "*", "?", "/", "\\"}

SheetNameLimit == 31

\* name.replace(/[\[\]\:\*\?\/\\]/, ''): without the g flag only the first
\* illegal character goes
RECURSIVE stripFirstIllegal(_)
stripFirstIllegal(name) ==
    IF name = <<>> THEN <<>>
    ELSE IF Head(name) \in IllegalSheetChars THEN Tail(name)
    ELSE <<Head(name)>> \o stripFirstIllegal(Tail(name))

\* name.replace(/[\[\]\:\*\?\/\\]/g, '')
RECURSIVE stripIllegal(_)
stripIllegal(name) ==
    IF name = <<>> THEN <<>>
    ELSE IF Head(name) \in IllegalSheetChars THEN stripIllegal(Tail(name))
    ELSE <<Head(name)>> \o stripIllegal(Tail(name))

\* text.substring(0, indexEnd)
substring(text, indexEnd) ==
    SubSeq(text, 1, IF indexEnd < Len(text) THEN indexEnd ELSE Len(text))

sanitizeSheetNameFirstOnly(name) == substring(stripFirstIllegal(name), SheetNameLimit)

sanitizeSheetName(name) == substring(stripIllegal(name), SheetNameLimit)

DailyKeyName ==
    <<"D", "a", "i", "l", "y", "_", "P", "r", "o", "d", "u", "c", "t", "i", "o", "n",
      "_", "K", "e", "y">>

PlanSuffix == <<" ", "P", "l", "a", "n">>

PivotName ==
    <<"P", "r", "o", "d", "u", "c", "t", "i", "o", "n", "_", "P", "i", "v", "o", "t">>

DashboardName ==
    <<"S", "u", "m", "m", "a", "r", "y", "_", "D", "a", "s", "h", "b", "o", "a", "r", "d">>

\* the plan sheet named by the project name alone
sheetNamesNoSuffix(pd) ==
    << sanitizeSheetName(DailyKeyName), sanitizeSheetName(pd.name),
       sanitizeSheetName(PivotName) >>

sheetNamesUtil(pd) ==
    << sanitizeSheetName(DailyKeyName), sanitizeSheetName(pd.name \o PlanSuffix),
       sanitizeSheetName(PivotName) >>

sheetNamesInline(pd) ==
    << sanitizeSheetName(DailyKeyName), sanitizeSheetName(pd.name \o PlanSuffix),
       sanitizeSheetName(PivotName), sanitizeSheetName(DashboardName) >>

---------------------------------------------------------------------------
(* Cells and rows *)

FormulaCell(f) == [kind |-> "formula", formula |-> f, value |-> Undefined]
ValueCell(v)   == [kind |-> "value", formula |-> <<>>, value |-> v]
EmptyCell      == [kind |-> "empty", formula |-> <<>>, value |-> Null]

\* the ascending sequence of a finite set of integers
RECURSIVE SortAscending(_)
SortAscending(S) ==
    IF S = {} THEN <<>>
    ELSE LET m == CHOOSE x \in S : \A y \in S : x <= y
         IN  <<m>> \o SortAscending(S \ {m})

\* -- Sheet 1: Daily_Production_Key --------------------------------------

\* addTable({ref: 'A1', headerRow: true, rows}): the sheet row on which the
\* table stores rows[index], below the header row when there is one
tableDataRow(refRow, headerRow, index) ==
    refRow + (IF headerRow THEN 1 ELSE 0) + index

\* the row numbered from the position alone, as if the sheet had no header row
dailyRowZeroBased(pd, item, index) ==
    LET rowIndex == index + 1
        base == << ValueCell(DateValue(item.date)),
                   FormulaCell(<<"TEXT(A", ToString(rowIndex), ", \"dddd\")">>),
                   FormulaCell(<<"WEEKNUM(A", ToString(rowIndex), ")">>),
                   FormulaCell(<<"TEXT(A", ToString(rowIndex), ", \"mmmm\")">>),
                   ValueCell(Str(item.name)) >>
        dyn  == [c \in 1 .. Len(pd.dailyColumns) |->
                    LET col == pd.dailyColumns[c]
                    IN  IF HasFormula(col)
                        THEN FormulaCell(replaceRowIndex(col.formula[1], rowIndex))
                        ELSE ValueCell(Get(item.fields, col.key))]
    IN  [row |-> tableDataRow(1, TRUE, index), cells |-> base \o dyn]

\* one row of DailyProductionTable; index is the 0-based position of item
dailyRow(pd, item, index) ==
    LET rowIndex == index + 2
        base == << ValueCell(DateValue(item.date)),
                   FormulaCell(<<"TEXT(A", ToString(rowIndex), ", \"dddd\")">>),
                   FormulaCell(<<"WEEKNUM(A", ToString(rowIndex), ")">>),
                   FormulaCell(<<"TEXT(A", ToString(rowIndex), ", \"mmmm\")">>),
                   ValueCell(Str(item.name)) >>
        dyn  == [c \in 1 .. Len(pd.dailyColumns) |->
                    LET col == pd.dailyColumns[c]
                    IN  IF HasFormula(col)
                        THEN FormulaCell(replaceRowIndex(col.formula[1], rowIndex))
                        ELSE ValueCell(Get(item.fields, col.key))]
    IN  [row |-> tableDataRow(1, TRUE, index), cells |-> base \o dyn]

\* a table that is never left without a data row: an empty schedule gets
\* one blank row
dailyRowsPadded(pd, items) ==
    IF items = <<>>
    THEN << [row |-> tableDataRow(1, TRUE, 0),
             cells |-> [c \in 1 .. 5 + Len(pd.dailyColumns) |-> EmptyCell]] >>
    ELSE [i \in 1 .. Len(items) |-> dailyRow(pd, items[i], i - 1)]

dailyRows(pd, items) == [i \in 1 .. Len(items) |-> dailyRow(pd, items[i], i - 1)]

\* -- Sheet 2: Production Plan -------------------------------------------

PlanDateColumn  == [header |-> "Date", key |-> "date", section |-> "Target", formula |-> <<>>]
PlanMonthColumn == [header |-> "Month", key |-> "month", section |-> "Target", formula |-> <<>>]

dynamicColumns(pd) == <<PlanDateColumn, PlanMonthColumn>> \o pd.columns

\* the ISO texts of the distinct item dates, sorted; an ISO text is modelled
\* by the instant it denotes, which orders the same way
\* the item dates as they come, one per item
uniqueDatesPerItem(items) == [i \in 1 .. Len(items) |-> items[i].date]

uniqueDates(items) == SortAscending({items[i].date : i \in 1 .. Len(items)})

planCell(col, dateIso, rowIndex) ==
    IF col.key = "date" THEN ValueCell(DateValue(dateIso))
    ELSE IF col.key = "month"
    THEN FormulaCell(<<"TEXT(A", ToString(rowIndex), ", \"mmmm\")">>)
    ELSE IF HasFormula(col) THEN FormulaCell(replaceRowIndex(col.formula[1], rowIndex))
    ELSE EmptyCell

planRows(pd, items) ==
    LET dates == uniqueDates(items)
        cols  == dynamicColumns(pd)
    IN  [i \in 1 .. Len(dates) |->
            [row   |-> (i - 1) + 5,
             cells |-> [c \in 1 .. Len(cols) |-> planCell(cols[c], dates[i], (i - 1) + 5)]]]

\* header.toLowerCase().includes('rate') || ...includes('%')
IsRateHeader(header) == header \in {"Completion Rate", "% Done"}

\* the range of the sum reaches the Grand Total row itself
grandTotalRowInclusive(pd, items) ==
    LET totalRowIndex == Len(uniqueDates(items)) + 5
        cols == dynamicColumns(pd)
    IN  [row   |-> totalRowIndex,
         cells |-> [c \in 1 .. Len(cols) |->
                      IF c = 1 THEN ValueCell(Str("Grand Total"))
                      ELSE IF cols[c].key # "month" /\ ~IsRateHeader(cols[c].header)
                      THEN FormulaCell(<<"SUM(">> \o getColumnLetter(c) \o <<"5:">>
                                       \o getColumnLetter(c)
                                       \o <<ToString(totalRowIndex), ")">>)
                      ELSE EmptyCell]]

grandTotalRow(pd, items) ==
    LET totalRowIndex == Len(uniqueDates(items)) + 5
        cols == dynamicColumns(pd)
    IN  [row   |-> totalRowIndex,
         cells |-> [c \in 1 .. Len(cols) |->
                      IF c = 1 THEN ValueCell(Str("Grand Total"))
                      ELSE IF cols[c].key # "month" /\ ~IsRateHeader(cols[c].header)
                      THEN FormulaCell(<<"SUM(">> \o getColumnLetter(c) \o <<"5:">>
                                       \o getColumnLetter(c)
                                       \o <<ToString(totalRowIndex - 1), ")">>)
                      ELSE EmptyCell]]

\* -- Sheet 3: Production_Pivot ------------------------------------------

DefaultPivotColumns ==
    << [header |-> "Total Target",
        formula |-> <<"SUMIFS(DailyProductionTable[Target], DailyProductionTable[Week], A",
                      "{", "rowIndex", "}", ")">>],
       [header |-> "Total Actual",
        formula |-> <<"SUMIFS(DailyProductionTable[Actual], DailyProductionTable[Week], A",
                      "{", "rowIndex", "}", ")">>],
       [header |-> "Total Variance",
        formula |-> <<"SUMIFS(DailyProductionTable[Variance], DailyProductionTable[Week], A",
                      "{", "rowIndex", "}", ")">>],
       [header |-> "Cumulative Actual",
        formula |-> <<"SUM($D$2:D", "{", "rowIndex", "}", ")">>] >>

pivotColumns(pd) == IF pd.hasPivotColumns THEN pd.pivotColumns ELSE DefaultPivotColumns

\* Math.ceil(a / b) for b > 0
CeilDiv(a, b) == 0 - ((0 - a) \div b)

\* excelGenerator: Math.ceil((item.date - start) / (7 days)) + 1
weekNum(date, start) == CeilDiv(date - start.time, 7 * 24) + 1

uniqueWeeks(items, start) ==
    SortAscending({weekNum(items[i].date, start) : i \in 1 .. Len(items)})

pivotRowsUtil(pd, items, start) ==
    LET weeks == uniqueWeeks(items, start)
        cols  == pivotColumns(pd)
    IN  [i \in 1 .. Len(weeks) |->
            LET rIdx == (i - 1) + 2
            IN  [row   |-> rIdx,
                 cells |-> << ValueCell(Num(R(weeks[i], 1))),
                              FormulaCell(<<"VLOOKUP(A", ToString(rIdx),
                                            ", DailyProductionTable[[Week]:[Month]], 2, FALSE)">>) >>
                           \o [c \in 1 .. Len(cols) |->
                                 FormulaCell(replaceRowIndex(cols[c].formula, rIdx))]]]

\* component: format(date, 'w'), the local week of the year (weeks start on
\* Sunday, week 1 holds 1 January; 31 December 2023 is a Sunday)
formatWeek(date) == ((date \div 24) \div 7) + 1

weeksOf(items) == SortAscending({formatWeek(items[i].date) : i \in 1 .. Len(items)})

\* the pivot columns whose header is not a base pivot header
dynamicPivotCols(pd) ==
    LET Keep(col) == col.header \notin {"Week", "Month"}
    IN  SelectSeq(pivotColumns(pd), Keep)

pivotRowsInline(pd, items) ==
    LET weeks == weeksOf(items)
        cols  == dynamicPivotCols(pd)
    IN  [i \in 1 .. Len(weeks) |->
            LET rowIndex == (i - 1) + 2
            IN  [row   |-> tableDataRow(1, TRUE, i - 1),
                 cells |-> << ValueCell(Num(R(weeks[i], 1))),
                              FormulaCell(<<"INDEX(DailyProductionTable[Month], MATCH(",
                                            ToString(weeks[i]),
                                            ", DailyProductionTable[Week], 0))">>) >>
                           \o [c \in 1 .. Len(cols) |->
                                 FormulaCell(replaceRowIndex(cols[c].formula, rowIndex))]]]

\* -- Sheet 4: Summary_Dashboard (component only) ------------------------

DefaultDashboardMetrics(goal) ==
    << [label |-> "Overall Goal", formula |-> <<ToString(goal)>>, format |-> ""],
       [label |-> "Total Actual", formula |-> <<"SUM(DailyProductionTable[Actual])">>, format |-> ""],
       [label |-> "Total Remaining", formula |-> <<"B3-B4">>, format |-> ""],
       [label |-> "% Completion", formula |-> <<"B4/B3">>, format |-> "0.00%"],
       [label |-> "Avg Daily Production",
        formula |-> <<"AVERAGE(DailyProductionTable[Actual])">>, format |-> ""],
       [label |-> "Required Daily Production",
        formula |-> <<"IF(OR(B5<=0, COUNTBLANK(DailyProductionTable[Actual])=0), 0, B5 / COUNTBLANK(DailyProductionTable[Actual]))">>,
        format |-> ""],
       [label |-> "Status",
        formula |-> <<"IF(B5<=0, \"Completed\", IF(B7>=AVERAGE(DailyProductionTable[Target]), \"On Track\", \"Behind\"))">>,
        format |-> ""] >>

dashData(pd) ==
    IF pd.hasDashboardMetrics THEN pd.dashboardMetrics ELSE DefaultDashboardMetrics(pd.goal)

dashRows(pd) ==
    LET data == dashData(pd)
    IN  [i \in 1 .. Len(data) |->
            [row   |-> (i - 1) + 3,
             cells |-> << ValueCell(Str(data[i].label)), FormulaCell(data[i].formula) >>]]

---------------------------------------------------------------------------
(* Inputs: the ProjectData records a generation call may receive *)

Goals == {-3, 0, 100}

ResourceLists == UNION {[1 .. n -> Names] : n \in 0 .. MaxRes}

DailyTarget   == [header |-> "Target", key |-> "target", formula |-> <<>>]
DailyActual   == [header |-> "Actual", key |-> "actual", formula |-> <<>>]
DailyDuration == [header |-> "Duration", key |-> "duration", formula |-> <<>>]
DailyVariance == [header |-> "Variance", key |-> "variance",
                  formula |-> << <<"G", "{", "rowIndex", "}", "-F", "{", "rowIndex", "}">> >>]

DailyColumnLists ==
    { <<DailyTarget, DailyDuration>>,
      <<DailyTarget, DailyActual, DailyDuration, DailyVariance>> }

PlanTarget ==
    [header |-> "Daily Target", key |-> "dailyTarget", section |-> "Target",
     formula |-> << <<"SUMIFS(DailyProductionTable[Target], DailyProductionTable[Date], A",
                      "{", "rowIndex", "}", ")">> >>]
PlanActual ==
    [header |-> "Daily Actual", key |-> "dailyActual", section |-> "Actual",
     formula |-> << <<"SUMIFS(DailyProductionTable[Actual], DailyProductionTable[Date], A",
                      "{", "rowIndex", "}", ")">> >>]
PlanRate ==
    [header |-> "Completion Rate", key |-> "rate", section |-> "Actual",
     formula |-> << <<"IF(C", "{", "rowIndex", "}", "=0, 0, D", "{", "rowIndex", "}",
                      "/C", "{", "rowIndex", "}", ")">> >>]
PlanCumulative ==
    [header |-> "Cumulative Actual", key |-> "cumActual", section |-> "Accumulative",
     formula |-> << <<"SUM($D$5:D", "{", "rowIndex", "}", ")">> >>]

PlanPercent ==
    [header |-> "% Done", key |-> "pctDone", section |-> "Accumulative",
     formula |-> << <<"F", "{", "rowIndex", "}", "/100">> >>]

PlanColumns == <<PlanTarget, PlanActual, PlanRate, PlanCumulative>>

\* every list of plan columns, the sections in any order
PlanColumnLists ==
    UNION {[1 .. n -> {PlanTarget, PlanActual, PlanRate, PlanCumulative, PlanPercent}] :
             n \in 0 .. MaxCols}

\* the observations an uploaded file or the planner may supply
ActualReadings ==
    { [k \in {"actual"} |-> Num(R(0, 1))],
      [k \in {"actual", "duration"} |-> IF k = "actual" THEN Num(R(7, 1)) ELSE Num(R(0, 1))] }

ActualItems ==
    [date : {DateText(5, 12), DateText(6, 0), InvalidDateText},
     name : {"a", "B"},
     fields : ActualReadings]

ActualLists == UNION {[1 .. n -> ActualItems] : n \in 0 .. MaxActual}

TemplateTokens == {"{", "rowIndex", "}"}

Templates == UNION {[1 .. n -> TemplateTokens] : n \in 0 .. MaxTemplateLen}

IllegalCharList == <<"/", "\\", ":", "*", "?", "[", "]">>

\* a name of n characters whose every p-th character, from offset q, is one
\* of the characters a sheet name may not hold
patternName(n, p, q) ==
    [k \in 1 .. n |-> IF k % p = q THEN IllegalCharList[((k \div p) % 7) + 1]
                      ELSE Letters[((k - 1) % 26) + 1]]

ProjectNames ==
    { patternName(n, p, q) : n \in 0 .. MaxNameLen, p \in 1 .. MaxPeriod, q \in 0 .. MaxPeriod - 1 }

BaseInput ==
    [name |-> <<"L", "i", "n", "e", " ", "1">>, goal |-> 100,
     startDate |-> DateText(6, 0), endDate |-> DateText(7, 0),
     resources |-> <<"A">>,
     hasActualData |-> FALSE, actualData |-> <<>>,
     columns |-> PlanColumns,
     dailyColumns |-> <<DailyTarget, DailyActual, DailyDuration, DailyVariance>>,
     hasPivotColumns |-> FALSE, pivotColumns |-> <<>>,
     hasDashboardMetrics |-> FALSE, dashboardMetrics |-> <<>>]

\* the end dates: every day at midnight, or no date (the hour of the end date
\* changes nothing but its order against a start date of the same day)
EndDateTexts == {DateText(d, 0) : d \in DayNumbers} \cup {InvalidDateText}

\* every date range, resource list and goal
ScheduleInputs ==
    { [BaseInput EXCEPT !.startDate = s, !.endDate = e, !.resources = r, !.goal = g] :
        s \in DateTexts, e \in EndDateTexts, r \in ResourceLists, g \in Goals }

\* every list of observations against a two-day range
ActualInputs ==
    { [BaseInput EXCEPT !.startDate = DateText(5, 0), !.endDate = DateText(6, 12),
                        !.resources = <<"A", "B">>, !.hasActualData = TRUE,
                        !.actualData = a, !.dailyColumns = d] :
        a \in ActualLists, d \in DailyColumnLists }

\* every formula text, supplied for a daily, a plan, a pivot and a dashboard column
FormulaInputs ==
    { [BaseInput EXCEPT
         !.dailyColumns = <<DailyTarget,
                            [header |-> "Calc", key |-> "calc", formula |-> <<f>>]>>,
         !.columns = <<[header |-> "Calc", key |-> "calc", section |-> "Actual",
                        formula |-> <<f>>]>>,
         !.hasPivotColumns = TRUE,
         !.pivotColumns = <<[header |-> "Calc", formula |-> f]>>,
         !.hasDashboardMetrics = TRUE,
         !.dashboardMetrics = <<[label |-> "Calc", formula |-> f, format |-> ""]>>] :
        f \in Templates }

\* the planner's observations carry the reading 5, the uploaded ones 7; the
\* pairs differ in the hour of the date text and in the case of the name
MergePairs ==
    { [date |-> DateText(5, 0), name |-> "a"], [date |-> DateText(5, 12), name |-> "a"],
      [date |-> DateText(5, 0), name |-> "A"] }

PlannerItems ==
    { [date |-> p.date, name |-> p.name, fields |-> [k \in {"actual"} |-> Num(R(5, 1))]] :
        p \in MergePairs }

UploadedItems ==
    { [date |-> p.date, name |-> p.name, fields |-> [k \in {"actual"} |-> Num(R(7, 1))]] :
        p \in MergePairs }

\* no uploaded file (null), or the items parsed from one
UploadedData ==
    {<<>>} \cup { <<u>> : u \in UNION {[1 .. n -> UploadedItems] : n \in 0 .. MaxMerge} }

\* an observation of the planner with the reading 0
PlannerZero ==
    [date |-> DateText(5, 0), name |-> "A", fields |-> [k \in {"actual"} |-> Num(R(0, 1))]]

\* the planner's call without actualData, or with any list of observations
MergeInputs ==
    { [BaseInput EXCEPT !.startDate = DateText(5, 0), !.endDate = DateText(6, 0)] }
    \cup
    { [BaseInput EXCEPT !.startDate = DateText(5, 0), !.endDate = DateText(6, 0),
                        !.hasActualData = TRUE, !.actualData = <<PlannerZero>>] }
    \cup
    { [BaseInput EXCEPT !.startDate = DateText(5, 0), !.endDate = DateText(6, 0),
                        !.hasActualData = TRUE, !.actualData = a] :
        a \in UNION {[1 .. n -> PlannerItems] : n \in 0 .. MaxMerge} }

\* the names of the fixed sheets and their beginnings, as they are and
\* followed by a character a sheet name may not hold
ReservedLikeNames ==
    UNION { UNION { { SubSeq(fixed, 1, k), SubSeq(fixed, 1, k) \o <<":">> } :
              k \in 0 .. Len(fixed) } : fixed \in {DailyKeyName, PivotName, DashboardName} }

\* every project name
NameInputs == { [BaseInput EXCEPT !.name = n] : n \in ProjectNames \cup ReservedLikeNames }

\* the shapes of a call: with or without resources, daily columns, plan
\* columns and pivot columns
ShapeInputs ==
    { [BaseInput EXCEPT !.resources = r, !.dailyColumns = d, !.columns = c,
                        !.hasPivotColumns = p] :
        r \in {<<>>, <<"A">>},
        d \in {<<>>, <<DailyTarget, DailyActual>>},
        c \in {<<>>, PlanColumns},
        p \in BOOLEAN }

\* every list of plan columns
ColumnInputs == { [BaseInput EXCEPT !.columns = c] : c \in PlanColumnLists }

---------------------------------------------------------------------------
(* The merge of the planner's and the uploaded observations *)

\* combinedActualData.some(c => c.date === upItem.date && c.name === upItem.name)
exists(combined, upItem) ==
    \E i \in 1 .. Len(combined) :
        combined[i].date = upItem.date /\ combined[i].name = upItem.name

\* uploadedData.forEach(upItem => { if (!exists) combinedActualData.push(upItem) })
RECURSIVE pushUploaded(_, _)
pushUploaded(combined, uploaded) ==
    IF uploaded = <<>> THEN combined
    ELSE pushUploaded(IF exists(combined, Head(uploaded)) THEN combined
                      ELSE Append(combined, Head(uploaded)),
                      Tail(uploaded))

\* the uploaded items are appended without the test
combineAll(pd, uploaded) ==
    (IF pd.hasActualData THEN pd.actualData ELSE <<>>)
        \o (IF uploaded # <<>> THEN uploaded[1] ELSE <<>>)

\* [...(projectData.actualData || [])] followed by the uploaded items; the
\* uploaded data is <<>> (null) or <<list>>
combinedActualData(pd, uploaded) ==
    LET own == IF pd.hasActualData THEN pd.actualData ELSE <<>>
    IN  IF uploaded # <<>> THEN pushUploaded(own, uploaded[1]) ELSE own

\* projectData.actualData = combined.length > 0 ? combined : undefined
withCombinedActualData(pd, uploaded) ==
    LET combined == combinedActualData(pd, uploaded)
    IN  [pd EXCEPT !.hasActualData = Len(combined) > 0, !.actualData = combined]

---------------------------------------------------------------------------
(* Tables and header rows *)

BaseKeyHeaders == <<"Date", "Day", "Week", "Month", "Name">>

headersOf(cols) == [c \in 1 .. Len(cols) |-> cols[c].header]

keyTable(pd, items) ==
    [name |-> "DailyProductionTable", sheet |-> 1, headerRow |-> TRUE, totalsRow |-> TRUE,
     columns |-> BaseKeyHeaders \o headersOf(pd.dailyColumns), rows |-> Len(items)]

\* the header cells of row 4 of the plan sheet
planHeader(pd) == headersOf(dynamicColumns(pd))

\* excelGenerator: the pivot rows are written through getRow, the table holds none
pivotTableUtil(pd) ==
    [name |-> "PivotTable", sheet |-> 3, headerRow |-> TRUE, totalsRow |-> FALSE,
     columns |-> <<"Week", "Month">> \o headersOf(pivotColumns(pd)), rows |-> 0]

pivotTableInline(pd, items) ==
    [name |-> "PivotSummaryTable", sheet |-> 3, headerRow |-> TRUE, totalsRow |-> TRUE,
     columns |-> <<"Week", "Month">> \o headersOf(dynamicPivotCols(pd)),
     rows |-> Len(weeksOf(items))]

---------------------------------------------------------------------------
(* Merged section bands of the plan sheet and conditional formatting *)

\* a range of cells: the column letters and row numbers of its two corners
Range(startCol, startRow, endCol, endRow) ==
    [startCol |-> startCol, startRow |-> startRow, endCol |-> endCol, endRow |-> endRow]

sections == <<"Target", "Actual", "Accumulative">>

\* dynamicColumns.filter(c => c.section === section).length
sectionCols(cols, section) == Cardinality({c \in 1 .. Len(cols) : cols[c].section = section})

\* the merges of one section: rows 2-3 in one block for Target, row 2 and
\* row 3 apart for the other sections
bandMerges(section, startCol, endCol) ==
    IF section = "Target"
    THEN << [section |-> section, range |-> Range(startCol, 2, endCol, 3)] >>
    ELSE << [section |-> section, range |-> Range(startCol, 2, endCol, 2)],
            [section |-> section, range |-> Range(startCol, 3, endCol, 3)] >>

\* sections.forEach(section => { ...; currentColIndex += sectionCols.length })
RECURSIVE forEachSection(_, _, _)
forEachSection(rest, cols, currentColIndex) ==
    IF rest = <<>> THEN <<>>
    ELSE LET n == sectionCols(cols, Head(rest))
         IN  IF n > 0
             THEN bandMerges(Head(rest), getColumnLetter(currentColIndex),
                             getColumnLetter(currentColIndex + n - 1))
                    \o forEachSection(Tail(rest), cols, currentColIndex + n)
             ELSE forEachSection(Tail(rest), cols, currentColIndex)

sectionBands(pd) == forEachSection(sections, dynamicColumns(pd), 1)

\* ref: `F2:${lastKeyColLetter}${keyRows}` on the Daily_Production_Key sheet
keyFormatting(pd, items) ==
    [sheet |-> 1,
     ref |-> Range(<<"F">>, 2, getColumnLetter(5 + Len(pd.dailyColumns)), Len(items) + 1)]

\* ref: `C5:${lastColLetter}${totalRowIndex}` on the plan sheet
planFormatting(pd, items) ==
    [sheet |-> 2,
     ref |-> Range(<<"C">>, 5, getColumnLetter(Len(dynamicColumns(pd))),
                   Len(uniqueDates(items)) + 5)]

\* ref: `C2:${lastPivotColLetter}${pivotRows}` on the pivot sheet of the component
pivotFormatting(pd, items) ==
    [sheet |-> 3,
     ref |-> Range(<<"C">>, 2, getColumnLetter(2 + Len(dynamicPivotCols(pd))),
                   Len(weeksOf(items)) + 1)]

\* ref: `B${r}` for every dashboard metric without a format
dashFormatting(pd) ==
    LET data == dashData(pd)
        Plain(i) == data[i].format = ""
        rows == SortAscending({i \in 1 .. Len(data) : Plain(i)})
    IN  [k \in 1 .. Len(rows) |->
            [sheet |-> 4, ref |-> Range(<<"B">>, rows[k] + 2, <<"B">>, rows[k] + 2)]]

---------------------------------------------------------------------------
(* State machine *)

NoWorkbook == [sheets |-> <<>>, tables |-> <<>>, keyRows |-> <<>>, planHeader |-> <<>>,
               planRows |-> <<>>, totalRow |-> <<>>, pivotRows |-> <<>>, dashRows |-> <<>>,
               merges |-> <<>>, formats |-> <<>>]

\* the sheets excelGenerator adds to its workbook
sheetsUtil(pd, items, targets, start) ==
    [sheets     |-> sheetNamesUtil(pd),
     tables     |-> <<keyTable(pd, targets), pivotTableUtil(pd)>>,
     keyRows    |-> dailyRows(pd, targets),
     planHeader |-> planHeader(pd),
     planRows   |-> planRows(pd, items),
     totalRow   |-> <<grandTotalRow(pd, items)>>,
     pivotRows  |-> pivotRowsUtil(pd, items, start),
     dashRows   |-> <<>>,
     merges     |-> sectionBands(pd),
     formats    |-> <<keyFormatting(pd, targets), planFormatting(pd, items)>>]

\* the sheets the component adds to its workbook
sheetsInline(pd, items, targets) ==
    [sheets     |-> sheetNamesInline(pd),
     tables     |-> <<keyTable(pd, targets), pivotTableInline(pd, items)>>,
     keyRows    |-> dailyRows(pd, targets),
     planHeader |-> planHeader(pd),
     planRows   |-> planRows(pd, items),
     totalRow   |-> <<grandTotalRow(pd, items)>>,
     pivotRows  |-> pivotRowsInline(pd, items),
     dashRows   |-> dashRows(pd),
     merges     |-> sectionBands(pd),
     formats    |-> <<keyFormatting(pd, targets), planFormatting(pd, items),
                      pivotFormatting(pd, items)>> \o dashFormatting(pd)]

InvalidDatesError == "Invalid dates provided"

\* whatever workbook.xlsx.writeBuffer() rejects with
WriteError == "writeBuffer rejected"

GenerationErrorText ==
    "I encountered an error generating the Excel file. Please check the details and try again."

ConnectionErrorText ==
    "I'm having a bit of trouble connecting to my brain. Could you try again?"

FileMessage(buf) == [role |-> "agent", type |-> "file", content |-> "generated", fileData |-> buf]
TextMessage(text) == [role |-> "agent", type |-> "text", content |-> text, fileData |-> <<>>]

Init ==
    /\ NoChat
    /\ \/ projectData \in MergeInputs /\ uploadedData \in UploadedData
       \/ projectData \in ScheduleInputs /\ uploadedData = <<>>
       \/ projectData \in ActualInputs /\ uploadedData = <<>>
       \/ projectData \in FormulaInputs /\ uploadedData = <<>>
       \/ projectData \in NameInputs /\ uploadedData = <<>>
       \/ projectData \in ColumnInputs /\ uploadedData = <<>>
       \/ projectData \in ShapeInputs /\ uploadedData = <<>>
    /\ outcome = "pending"
    /\ error = <<>>
    /\ scheduleItems = <<>>
    /\ weights = <<>>
    /\ itemsWithTargets = <<>>
    /\ workbook = NoWorkbook
    /\ buffer = <<>>
    /\ messages = <<>>
    /\ calls = <<>>
    /\ workbooks = <<>>

\* the body of excelGenerator.generateExcelFile(pd): the promise resolves
\* with the buffer or rejects with the error
GenerateUtil(pd) ==
    LET start == NewDate(pd.startDate)
        end   == NewDate(pd.endDate)
    IN  IF ~isValid(start) \/ ~isValid(end)
        THEN /\ outcome' = "threw"
             /\ error' = <<InvalidDatesError>>
             /\ buffer' = <<>>
             /\ UNCHANGED <<scheduleItems, weights, itemsWithTargets, workbook>>
        ELSE /\ scheduleItems' = expandSchedule(pd, eachDayOfInterval(start, end))
             /\ weights' = computeWeights(scheduleItems')
             /\ itemsWithTargets' = withTargets(scheduleItems', weights', pd.goal)
             /\ workbook' = sheetsUtil(pd, scheduleItems', itemsWithTargets', start)
             /\ \/ /\ outcome' = "returned"
                   /\ error' = <<>>
                   /\ buffer' = <<workbook'>>
                \/ /\ outcome' = "threw"
                   /\ error' = <<WriteError>>
                   /\ buffer' = <<>>

\* the body of ProductionPlanMaker.generateExcelFile(pd): appends a file
\* message, or the error message of its catch block; the promise resolves
\* either way
GenerateInline(pd) ==
    LET start == NewDate(pd.startDate)
        end   == NewDate(pd.endDate)
    IN  /\ error' = <<>>
        /\ IF ~isValid(start) \/ ~isValid(end)
           THEN /\ outcome' = "errorMessage"
                /\ buffer' = <<>>
                /\ messages' = Append(messages, TextMessage(GenerationErrorText))
                /\ UNCHANGED <<scheduleItems, weights, itemsWithTargets, workbook>>
           ELSE /\ scheduleItems' = expandSchedule(pd, eachDayOfInterval(start, end))
                /\ weights' = computeWeights(scheduleItems')
                /\ itemsWithTargets' = withTargets(scheduleItems', weights', pd.goal)
                /\ workbook' = sheetsInline(pd, scheduleItems', itemsWithTargets')
                /\ \/ /\ outcome' = "fileMessage"
                      /\ buffer' = <<workbook'>>
                      /\ messages' = Append(messages, FileMessage(buffer'))
                   \/ /\ outcome' = "errorMessage"
                      /\ buffer' = <<>>
                      /\ messages' = Append(messages, TextMessage(GenerationErrorText))

\* excelGenerator.generateExcelFile(projectData), called on its own
GenerateExcelFile ==
    /\ UNCHANGED chatVars
    /\ outcome = "pending"
    /\ GenerateUtil(projectData)
    /\ UNCHANGED <<projectData, uploadedData, messages, calls, workbooks>>

\* handleSendMessage on a reply that carries a generate_production_plan call
\* with the arguments projectData: the merge, the generation by
\* excelGenerator, and the file message or the message of the catch block
HandleSendMessage ==
    /\ UNCHANGED chatVars
    /\ outcome = "pending"
    /\ projectData' = withCombinedActualData(projectData, uploadedData)
    /\ GenerateUtil(projectData')
    /\ messages' = IF outcome' = "returned"
                   THEN Append(messages, FileMessage(buffer'))
                   ELSE Append(messages, TextMessage(ConnectionErrorText))
    /\ UNCHANGED <<uploadedData, calls, workbooks>>

\* the same handler of the component that generates inline; its
\* generateExcelFile is a closure of the component that only this handler calls
HandleSendMessageInline ==
    /\ UNCHANGED chatVars
    /\ outcome = "pending"
    /\ projectData' = withCombinedActualData(projectData, uploadedData)
    /\ GenerateInline(projectData')
    /\ UNCHANGED <<uploadedData, calls, workbooks>>

Next ==
    \/ GenerateExcelFile
    \/ HandleSendMessage
    \/ HandleSendMessageInline

Spec == Init /\ [][Next]_vars

Generated == outcome \in {"returned", "fileMessage"}

---------------------------------------------------------------------------
(* Calls of excelGenerator.generateExcelFile in flight at the same time *)

Calls == 1 .. MaxCalls

\* ranges that are valid, reversed, or have an unparseable start or end date
CallInputs ==
    { [BaseInput EXCEPT !.startDate = s, !.endDate = e] :
        s \in {DateText(6, 0), InvalidDateText},
        e \in {DateText(5, 0), DateText(7, 0), InvalidDateText} }
    \cup { [BaseInput EXCEPT !.resources = <<"B", "A">>] }

\* a call that has not started: its argument, and its locals still unset
NotStarted(pd) ==
    [projectData |-> pd, pc |-> "idle", workbook |-> 0, scheduleItems |-> <<>>,
     itemsWithTargets |-> <<>>, buffer |-> <<>>, error |-> <<>>]

InitConcurrent ==
    /\ NoChat
    /\ projectData = BaseInput
    /\ uploadedData = <<>>
    /\ outcome = "pending"
    /\ error = <<>>
    /\ scheduleItems = <<>>
    /\ weights = <<>>
    /\ itemsWithTargets = <<>>
    /\ workbook = NoWorkbook
    /\ buffer = <<>>
    /\ messages = <<>>
    /\ calls \in [Calls -> {NotStarted(pd) : pd \in CallInputs}]
    /\ workbooks = <<>>

\* one workbook object held by the module and reused by every call
sharedWorkbook(objects) == 1

\* new ExcelJS.Workbook(): an object no earlier call holds
newWorkbook(objects) == Len(objects) + 1

\* the workbook objects after the sheets were added to the object id
addSheets(objects, id, sheets) ==
    IF id \in DOMAIN objects THEN [objects EXCEPT ![id] = sheets]
    ELSE Append(objects, sheets)

\* the synchronous part of a call: from its entry to the writeBuffer await,
\* or to the throw of the date check
Begin(c) ==
    /\ UNCHANGED chatVars
    /\ calls[c].pc = "idle"
    /\ LET pd    == calls[c].projectData
           id    == newWorkbook(workbooks)
           start == NewDate(pd.startDate)
           end   == NewDate(pd.endDate)
       IN  IF ~isValid(start) \/ ~isValid(end)
           THEN /\ workbooks' = IF id \in DOMAIN workbooks THEN workbooks
                                ELSE Append(workbooks, NoWorkbook)
                /\ calls' = [calls EXCEPT ![c].pc = "rejected", ![c].workbook = id,
                                          ![c].error = <<InvalidDatesError>>]
           ELSE LET items   == expandSchedule(pd, eachDayOfInterval(start, end))
                    targets == withTargets(items, computeWeights(items), pd.goal)
                IN  /\ workbooks' = addSheets(workbooks, id,
                                              sheetsUtil(pd, items, targets, start))
                    /\ calls' = [calls EXCEPT ![c].pc = "writing", ![c].workbook = id,
                                              ![c].scheduleItems = items,
                                              ![c].itemsWithTargets = targets]
    /\ UNCHANGED <<projectData, uploadedData, outcome, error, scheduleItems, weights,
                   itemsWithTargets, workbook, buffer, messages>>

\* the await resumes with the serialized workbook of the call
WriteBufferResolves(c) ==
    /\ UNCHANGED chatVars
    /\ calls[c].pc = "writing"
    /\ calls' = [calls EXCEPT ![c].pc = "returned",
                              ![c].buffer = <<workbooks[calls[c].workbook]>>]
    /\ UNCHANGED <<projectData, uploadedData, outcome, error, scheduleItems, weights,
                   itemsWithTargets, workbook, buffer, messages, workbooks>>

\* the await resumes with a rejection
WriteBufferRejects(c) ==
    /\ UNCHANGED chatVars
    /\ calls[c].pc = "writing"
    /\ calls' = [calls EXCEPT ![c].pc = "rejected", ![c].error = <<WriteError>>]
    /\ UNCHANGED <<projectData, uploadedData, outcome, error, scheduleItems, weights,
                   itemsWithTargets, workbook, buffer, messages, workbooks>>

NextConcurrent ==
    \E c \in Calls : Begin(c) \/ WriteBufferResolves(c) \/ WriteBufferRejects(c)

SpecConcurrent == InitConcurrent /\ [][NextConcurrent]_vars

---------------------------------------------------------------------------
(* The chat components: messages, chat sessions and their storage.  A     *)
(* message is [id, role, type, content, fileData, origin]: content is the *)
(* number of characters of its text on display, fileData tells whether it *)
(* holds a workbook buffer, and origin records the session that was       *)
(* active when the request it belongs to was sent.                        *)

\* the step of the typewriter: i += 5
TypewriterStep == 5

\* the lengths of the texts an agent message is typed out from
TextLengths == {3, 8}

UserMessage(id, origin) ==
    [id |-> id, role |-> "user", type |-> "text", content |-> 1, fileData |-> FALSE,
     origin |-> origin]

\* { id: msgId, role: "agent", content: "", type, fileData }
AgentMessage(id, type, origin) ==
    [id |-> id, role |-> "agent", type |-> type, content |-> 0,
     fileData |-> (type = "file"), origin |-> origin]

\* the greeting the components without sessions start from and reset to
Greeting ==
    [id |-> 1, role |-> "agent", type |-> "text", content |-> 1, fileData |-> FALSE,
     origin |-> 0]

\* messages.map(m => ({ ...m, fileData: undefined }))
stripFileData(list) == [i \in 1 .. Len(list) |-> [list[i] EXCEPT !.fileData = FALSE]]

\* the list saveSessions writes to localStorage
saveSessions(list) ==
    [i \in 1 .. Len(list) |-> [list[i] EXCEPT !.messages = stripFileData(list[i].messages)]]

\* the list loadSessions reads back
loadSessions(raw) ==
    [i \in 1 .. Len(raw) |-> [raw[i] EXCEPT !.messages = stripFileData(raw[i].messages)]]

\* the effect on [messages, activeSessionId]: the sessions after it
saveEffect(prev, msgs, active, deleted) ==
    IF active = 0 THEN prev
    ELSE LET Kept(session) == session.id \notin deleted
             filtered == SelectSeq(prev, Kept)
             found == \E i \in 1 .. Len(filtered) : filtered[i].id = active
         IN  IF found
             THEN [i \in 1 .. Len(filtered) |->
                     IF filtered[i].id = active
                     THEN [filtered[i] EXCEPT !.messages = msgs]
                     ELSE filtered[i]]
             ELSE Append(filtered, [id |-> active, messages |-> msgs])

\* what localStorage holds when the component with sessions mounts
StoredLists ==
    { <<>>,
      << [id |-> 1, messages |-> <<UserMessage(1, 1), [AgentMessage(2, "text", 1) EXCEPT !.content = 3]>>] >>,
      << [id |-> 1, messages |-> <<>>],
         [id |-> 2, messages |-> <<UserMessage(1, 2)>>] >> }

\* the state of a component after its mount effects
InitChat ==
    /\ projectData = BaseInput
    /\ uploadedData = <<>>
    /\ outcome = "pending"
    /\ error = <<>>
    /\ scheduleItems = <<>>
    /\ weights = <<>>
    /\ itemsWithTargets = <<>>
    /\ workbook = NoWorkbook
    /\ buffer = <<>>
    /\ calls = <<>>
    /\ workbooks = <<>>
    /\ deletedSessionsRef = {}
    /\ pending = <<>>
    /\ isTyping = FALSE
    /\ isStreaming = FALSE
    /\ streamInterval = <<>>
    /\ chatRef = "chat"
    /\ now = 2
    /\ \/ /\ component \in {"inline", "modular"}
          /\ messages = <<Greeting>>
          /\ sessions = <<>>
          /\ activeSessionId = 0
          /\ stored = <<>>
       \/ /\ component = "sessions"
          /\ \E raw \in StoredLists :
                LET loaded == loadSessions(raw)
                IN  IF Len(loaded) > 0
                    THEN /\ activeSessionId = loaded[Len(loaded)].id
                         /\ messages = loaded[Len(loaded)].messages
                         /\ sessions = saveEffect(loaded, messages, activeSessionId, {})
                         /\ stored = saveSessions(sessions)
                    ELSE /\ activeSessionId = now
                         /\ messages = <<>>
                         /\ sessions = saveEffect(<<>>, messages, activeSessionId, {})
                         /\ stored = saveSessions(sessions)

\* handleSendMessage of the components without sessions, up to its await:
\* the component that generates inline calls chatRef.current.sendMessage as
\* it is, the modular one creates the chat first when there is none; a
\* call on null throws, and the catch block posts the error message
HandleSendMessageChat ==
    /\ component \in {"inline", "modular"}
    /\ ~isTyping
    /\ now < MaxNow /\ Len(messages) < MaxMessages
    /\ now' = now + 1
    /\ chatRef' = IF component = "modular" /\ chatRef = "null" THEN "chat" ELSE chatRef
    /\ IF chatRef' = "null"
       THEN /\ messages' = messages \o << UserMessage(now', 0),
                                          [AgentMessage(now', "text", 0) EXCEPT !.content = 8] >>
            /\ pending' = <<>>
            /\ isTyping' = FALSE
       ELSE /\ messages' = Append(messages, UserMessage(now', 0))
            /\ pending' = <<[origin |-> 0, chat |-> chatRef']>>
            /\ isTyping' = TRUE
    /\ UNCHANGED <<component, sessions, activeSessionId, stored, deletedSessionsRef,
                   isStreaming, streamInterval>>
    /\ UNCHANGED generationVars

\* the rest of that handleSendMessage: the reply (text, file or error
\* message) is appended whole
ChatReplies ==
    /\ component \in {"inline", "modular"}
    /\ pending # <<>>
    /\ now' = now + 1
    /\ \E type \in {"text", "file"}, length \in TextLengths :
          messages' = Append(messages, [AgentMessage(now', type, 0) EXCEPT !.content = length])
    /\ pending' = <<>>
    /\ isTyping' = FALSE
    /\ UNCHANGED <<component, sessions, activeSessionId, stored, deletedSessionsRef,
                   isStreaming, streamInterval, chatRef>>
    /\ UNCHANGED generationVars

\* resetChat of the components without sessions: chatRef.current = null in
\* the one, initChat() in the other
ResetChat ==
    /\ component \in {"inline", "modular"}
    /\ messages' = <<Greeting>>
    /\ chatRef' = IF component = "inline" THEN "null" ELSE "chat"
    /\ UNCHANGED <<component, sessions, activeSessionId, stored, deletedSessionsRef,
                   pending, isTyping, isStreaming, streamInterval, now>>
    /\ UNCHANGED generationVars

\* handleSendMessage of the component with sessions, up to its await
SendMessage ==
    /\ component = "sessions"
    /\ ~isTyping /\ ~isStreaming
    /\ now < MaxNow /\ Len(messages) < MaxMessages
    /\ now' = now + 1
    /\ messages' = Append(messages, UserMessage(now', activeSessionId))
    /\ isTyping' = TRUE
    /\ chatRef' = IF chatRef = "null" THEN "chat" ELSE chatRef
    /\ pending' = <<[origin |-> activeSessionId, chat |-> chatRef']>>
    /\ sessions' = saveEffect(sessions, messages', activeSessionId, deletedSessionsRef)
    /\ stored' = saveSessions(sessions')
    /\ UNCHANGED <<component, activeSessionId, deletedSessionsRef, isStreaming, streamInterval>>
    /\ UNCHANGED generationVars

\* the rest of that handleSendMessage: the agent message (a file message, or
\* a text or error message) is appended empty and typed out by typewriterEffect
AgentReplies ==
    /\ component = "sessions"
    /\ pending # <<>>
    /\ now' = now + 1
    /\ \E type \in {"text", "file"}, length \in TextLengths :
          /\ messages' = Append(messages, AgentMessage(now', type, pending[1].origin))
          /\ streamInterval' = <<[msgId |-> now', i |-> 0, length |-> length]>>
    /\ isStreaming' = TRUE
    /\ isTyping' = FALSE
    /\ pending' = <<>>
    /\ sessions' = saveEffect(sessions, messages', activeSessionId, deletedSessionsRef)
    /\ stored' = saveSessions(sessions')
    /\ UNCHANGED <<component, activeSessionId, deletedSessionsRef, chatRef>>
    /\ UNCHANGED generationVars

\* Math.min, as fullText.slice(0, i) takes it
Min(a, b) == IF a < b THEN a ELSE b

\* one tick of the interval typewriterEffect sets
TypewriterTick ==
    /\ streamInterval # <<>>
    /\ LET t == streamInterval[1]
           i == t.i + TypewriterStep
       IN  /\ messages' = [k \in 1 .. Len(messages) |->
                             IF messages[k].id = t.msgId
                             THEN [messages[k] EXCEPT !.content = Min(i, t.length)]
                             ELSE messages[k]]
           /\ IF i >= t.length
              THEN streamInterval' = <<>> /\ isStreaming' = FALSE
              ELSE streamInterval' = <<[t EXCEPT !.i = i]>> /\ isStreaming' = isStreaming
    /\ sessions' = saveEffect(sessions, messages', activeSessionId, deletedSessionsRef)
    /\ stored' = saveSessions(sessions')
    /\ UNCHANGED <<component, activeSessionId, deletedSessionsRef, pending, isTyping,
                   chatRef, now>>
    /\ UNCHANGED generationVars

\* resetChat of the component with sessions
ResetSession ==
    /\ component = "sessions"
    /\ streamInterval' = <<>>
    /\ isStreaming' = FALSE
    /\ messages' = <<>>
    /\ chatRef' = "chat"
    /\ sessions' = saveEffect(sessions, messages', activeSessionId, deletedSessionsRef)
    /\ stored' = saveSessions(sessions')
    /\ UNCHANGED <<component, activeSessionId, deletedSessionsRef, pending, isTyping, now>>
    /\ UNCHANGED generationVars

\* the state updates of startNewSession, from the sessions `prev`
startNewSession(prev) ==
    /\ now' = now + 1
    /\ streamInterval' = <<>>
    /\ isStreaming' = FALSE
    /\ activeSessionId' = now'
    /\ messages' = <<>>
    /\ chatRef' = "chat"
    /\ sessions' = saveEffect(Append(prev, [id |-> now', messages |-> <<>>]),
                              messages', activeSessionId', deletedSessionsRef')
    /\ stored' = saveSessions(sessions')

\* the state updates of loadSession(session), from the sessions `prev`
loadSession(prev, session) ==
    /\ streamInterval' = <<>>
    /\ isStreaming' = FALSE
    /\ activeSessionId' = session.id
    /\ messages' = session.messages
    /\ chatRef' = "chat"
    /\ sessions' = saveEffect(prev, messages', activeSessionId', deletedSessionsRef')
    /\ stored' = saveSessions(sessions')
    /\ now' = now

StartNewSession ==
    /\ component = "sessions"
    /\ now < MaxNow
    /\ deletedSessionsRef' = deletedSessionsRef
    /\ startNewSession(sessions)
    /\ UNCHANGED <<component, pending, isTyping>>
    /\ UNCHANGED generationVars

LoadSession(n) ==
    /\ component = "sessions"
    /\ deletedSessionsRef' = deletedSessionsRef
    /\ loadSession(sessions, sessions[n])
    /\ UNCHANGED <<component, pending, isTyping>>
    /\ UNCHANGED generationVars

\* the active session stays active after its deletion
handleDeleteSessionOnly(n) ==
    LET sessionId == sessions[n].id
        Other(session) == session.id # sessionId
    IN  /\ component = "sessions"
        /\ deletedSessionsRef' = deletedSessionsRef \cup {sessionId}
        /\ sessions' = SelectSeq(sessions, Other)
        /\ stored' = saveSessions(sessions')
        /\ UNCHANGED <<messages, activeSessionId, streamInterval, isStreaming, chatRef, now>>
        /\ UNCHANGED <<component, pending, isTyping>>
        /\ UNCHANGED generationVars

HandleDeleteSession(n) ==
    LET sessionId == sessions[n].id
        Other(session) == session.id # sessionId
        remaining == SelectSeq(sessions, Other)
    IN  /\ component = "sessions"
        /\ deletedSessionsRef' = deletedSessionsRef \cup {sessionId}
        /\ IF sessionId = activeSessionId
           THEN IF Len(remaining) > 0
                THEN loadSession(remaining, remaining[Len(remaining)])
                ELSE now < MaxNow /\ startNewSession(remaining)
           ELSE /\ sessions' = remaining
                /\ stored' = saveSessions(sessions')
                /\ UNCHANGED <<messages, activeSessionId, streamInterval, isStreaming,
                               chatRef, now>>
        /\ UNCHANGED <<component, pending, isTyping>>
        /\ UNCHANGED generationVars

NextChat ==
    \/ HandleSendMessageChat
    \/ ChatReplies
    \/ ResetChat
    \/ SendMessage
    \/ AgentReplies
    \/ TypewriterTick
    \/ ResetSession
    \/ StartNewSession
    \/ \E n \in 1 .. Len(sessions) : LoadSession(n)
    \/ \E n \in 1 .. Len(sessions) : HandleDeleteSession(n)

SpecChat == InitChat /\ [][NextChat]_vars

---------------------------------------------------------------------------
(* Properties *)

Start == NewDate(projectData.startDate)
End   == NewDate(projectData.endDate)

\* the range is one the spec calls valid: both dates parse, start <= end
ValidRange == isValid(Start) /\ isValid(End) /\ Start.time <= End.time

\* D: the inclusive calendar days of the range;  R: the resources
DayCount      == (End.time \div 24) - (Start.time \div 24) + 1
ResourceCount == Len(projectData.resources)

target(i) == itemsWithTargets[i].fields["target"].r

\* C1: for every schedule of length N >= 1 and every non-zero goal, the
\* targets of the schedule items sum to the goal exactly.
C1_TargetSum ==
    (Generated /\ Len(itemsWithTargets) >= 1 /\ projectData.goal # 0)
        => RSum([i \in 1 .. Len(itemsWithTargets) |-> target(i)]) = R(projectData.goal, 1)

C1_Witness ==
    Generated /\ Len(itemsWithTargets) >= 6 /\ projectData.goal = -3

\* C2: a valid range of D inclusive days and R resources (duplicates
\* counted) expands to exactly D x R items, whatever actualData holds.
C2_ScheduleSize ==
    (Generated /\ ValidRange) => Len(scheduleItems) = DayCount * ResourceCount

C2_Witness ==
    /\ Generated /\ ValidRange
    /\ projectData.hasActualData /\ Len(projectData.actualData) >= 2
    /\ DayCount = 2 /\ ResourceCount = 2 /\ Len(scheduleItems) = 4

\* C3: for a positive goal no earlier item has a larger target than a later
\* one, and with more than one item the first target is strictly below the
\* last.
C3_TargetsRampUp ==
    (Generated /\ projectData.goal > 0) =>
        LET N == Len(itemsWithTargets)
        IN  /\ \A i, j \in 1 .. N : i < j => RLe(target(i), target(j))
            /\ N > 1 => RLt(target(1), target(N))

C3_Witness ==
    Generated /\ projectData.goal = 100 /\ Len(itemsWithTargets) >= 8

\* C4: in a schedule of more than one item the weights are non-decreasing
\* in sequence position, across the phase boundaries too.
C4_WeightMonotone ==
    (Generated /\ Len(weights) > 1) =>
        \A i, j \in 1 .. Len(weights) : i < j => RLe(weights[i], weights[j])

\* five items put an item exactly on t = 0.25 and one exactly on t = 0.75
C4_Witness ==
    /\ Generated /\ Len(weights) = 5
    /\ weights[2] = R(6, 10) /\ weights[4] = R(1, 1)

\* C5: with t = i/(N-1) (t = 0 when N = 1) the weight at index i is
\* 0.3 + 0.3*(t/0.25) for t < 0.25, 0.6 + 0.4*((t-0.25)/0.5) for
\* 0.25 <= t < 0.75 and 1 for t >= 0.75; weight(0) = 0.3 and, for N > 1,
\* weight(N-1) = 1.  (The curve is stated in integers: with n = N-1,
\* t < 1/4 iff 4i < n, and 0.3 + 1.2t = (3n + 12i)/(10n).)
C5_WeightCurve ==
    Generated =>
        LET N == Len(weights)
            n == IF N = 1 THEN 1 ELSE N - 1
        IN  /\ \A i \in 0 .. N - 1 :
                  LET w == weights[i + 1]
                  IN  IF 4 * i < n THEN w.n * (10 * n) = (3 * n + 12 * i) * w.d
                      ELSE IF 4 * i < 3 * n THEN w.n * (10 * n) = (4 * n + 8 * i) * w.d
                      ELSE w.n = w.d
            /\ N >= 1 => weights[1] = R(3, 10)
            /\ N > 1 => weights[N] = R(1, 1)

\* ten items: the ramp, the growth and the plateau phase all hold items
C5_Witness ==
    /\ Generated /\ Len(weights) = 10
    /\ RLt(R(3, 10), weights[3]) /\ RLt(weights[3], R(6, 10))
    /\ RLt(R(6, 10), weights[5]) /\ RLt(weights[5], R(1, 1))

\* C6: a single-item schedule receives target = goal exactly, and its
\* weight is a finite number (no division by zero).
C6_SingleItem ==
    (Generated /\ Len(itemsWithTargets) = 1) =>
        /\ target(1) = R(projectData.goal, 1)
        /\ RFinite(weights[1]) /\ weights[1].n # 0

C6_Witness ==
    Generated /\ Len(itemsWithTargets) = 1 /\ projectData.goal # 0

\* C7: the schedule is day-major, resource-minor: the item at index d*R + r
\* is the d-th day of the range, ascending, with the r-th resource; the raw
\* daily sheet has its rows, and the weights their positions, in that order.
C7_DayMajorOrder ==
    (Generated /\ ValidRange) =>
        /\ Len(scheduleItems) = DayCount * ResourceCount
        /\ \A d \in 0 .. DayCount - 1 : \A r \in 0 .. ResourceCount - 1 :
              LET i == d * ResourceCount + r + 1
              IN  /\ scheduleItems[i].date = ((Start.time \div 24) + d) * 24
                  /\ scheduleItems[i].name = projectData.resources[r + 1]
                  /\ itemsWithTargets[i].date = scheduleItems[i].date
                  /\ itemsWithTargets[i].name = scheduleItems[i].name
                  /\ workbook.keyRows[i].row = i + 1
                  /\ workbook.keyRows[i].cells[1].value = DateValue(scheduleItems[i].date)
                  /\ workbook.keyRows[i].cells[5].value = Str(scheduleItems[i].name)
                  /\ weights[i] = weightAt(i - 1, DayCount * ResourceCount)
        /\ Len(itemsWithTargets) = Len(scheduleItems)
        /\ Len(workbook.keyRows) = Len(scheduleItems)
        /\ Len(weights) = Len(scheduleItems)

C7_Witness ==
    /\ Generated /\ ValidRange
    /\ DayCount >= 2 /\ ResourceCount = 2
    /\ projectData.resources[1] # projectData.resources[2]

\* the positions of the actualData items on the calendar day of `date` whose
\* name equals `resource` ignoring case
Matches(date, resource) ==
    IF projectData.hasActualData
    THEN { j \in 1 .. Len(projectData.actualData) :
             LET item == projectData.actualData[j]
             IN  /\ item.date.ok
                 /\ item.date.day = date \div 24
                 /\ toLowerCase(item.name) = toLowerCase(resource) }
    ELSE {}

FirstOf(S) == CHOOSE j \in S : \A k \in S : j <= k

\* C8: each schedule item's actual is the actual of the first actualData
\* item on the same calendar day whose name equals the resource ignoring
\* case; a pair with no such item has actual = null; no other item exists.
C8_FirstMatchActual ==
    (Generated /\ ValidRange) =>
        /\ Len(scheduleItems) = DayCount * ResourceCount
        /\ \A i \in 1 .. Len(scheduleItems) :
              LET M == Matches(scheduleItems[i].date, scheduleItems[i].name)
              IN  scheduleItems[i].fields["actual"] =
                      IF M = {} THEN Null
                      ELSE Get(projectData.actualData[FirstOf(M)].fields, "actual")

\* a field without a value (null, or never assigned)
Nullish(v) == v.t \in {"null", "undefined"}

\* C9: for a matched pair every dailyColumn key holds a copy of the matched
\* item's field, null only when the field is absent (0 is copied, also for
\* the key actual); for an unmatched pair actual and every dailyColumn
\* field hold no value.
C9_DailyFieldsCopied ==
    (Generated /\ ValidRange) =>
        \A i \in 1 .. Len(scheduleItems) :
            LET M == Matches(scheduleItems[i].date, scheduleItems[i].name)
                fields == scheduleItems[i].fields
            IN  IF M = {}
                THEN /\ Get(fields, "actual") = Null
                     /\ \A c \in 1 .. Len(projectData.dailyColumns) :
                           Nullish(Get(fields, projectData.dailyColumns[c].key))
                ELSE LET match == projectData.actualData[FirstOf(M)].fields
                     IN  \A c \in 1 .. Len(projectData.dailyColumns) :
                           LET key == projectData.dailyColumns[c].key
                           IN  Get(fields, key) =
                                   IF key \in DOMAIN match THEN match[key] ELSE Null

Contains(s, p) == \E k \in 0 .. Len(s) - Len(p) : SubSeq(s, k + 1, k + Len(p)) = p

\* no formula cell of the rows still holds the placeholder
NoPlaceholderIn(rows) ==
    \A i \in 1 .. Len(rows) : \A c \in 1 .. Len(rows[i].cells) :
        rows[i].cells[c].kind = "formula" => ~Contains(rows[i].cells[c].formula, Placeholder)

\* C10 as stated: no formula written to any sheet (raw daily, production
\* plan, pivot, dashboard) holds an unsubstituted {rowIndex} placeholder.
C10_NoPlaceholderAnySheet ==
    Generated =>
        /\ NoPlaceholderIn(workbook.keyRows)
        /\ NoPlaceholderIn(workbook.planRows)
        /\ NoPlaceholderIn(workbook.totalRow)
        /\ NoPlaceholderIn(workbook.pivotRows)
        /\ NoPlaceholderIn(workbook.dashRows)

\* C10 as amended: no formula written to the raw daily, the production plan
\* or the pivot sheet holds an unsubstituted {rowIndex} placeholder, for any
\* template of dailyColumns, columns or pivotColumns, several occurrences
\* included.
C10_NoPlaceholderInTables ==
    Generated =>
        /\ NoPlaceholderIn(workbook.keyRows)
        /\ NoPlaceholderIn(workbook.planRows)
        /\ NoPlaceholderIn(workbook.totalRow)
        /\ NoPlaceholderIn(workbook.pivotRows)

\* a template with two occurrences was supplied and written to all three
C10_Witness ==
    /\ Generated
    /\ projectData.hasPivotColumns
    /\ projectData.pivotColumns[1].formula = Placeholder \o Placeholder
    /\ projectData.columns[1].formula = <<Placeholder \o Placeholder>>
    /\ projectData.dailyColumns[2].formula = <<Placeholder \o Placeholder>>
    /\ Len(workbook.keyRows) >= 1 /\ Len(workbook.planRows) >= 1
    /\ Len(workbook.pivotRows) >= 1
    /\ workbook.keyRows[1].cells[7].formula = <<"2", "2">>
    /\ workbook.planRows[1].cells[3].formula = <<"5", "5">>
    /\ workbook.pivotRows[1].cells[3].formula = <<"2", "2">>

\* the pivot columns written by the call that produced the workbook
writtenPivotColumns ==
    IF outcome = "returned" THEN pivotColumns(projectData) ELSE dynamicPivotCols(projectData)

\* C11: the number substituted for {rowIndex} in a cell's formula is the
\* 1-based sheet row of that cell: the schedule item at index i is on raw
\* row i+2, the k-th unique date on plan row k+5 and the j-th pivot week on
\* pivot row j+2 (i, k, j counted from 0).
C11_RowIndexIsSheetRow ==
    Generated =>
        /\ \A i \in 0 .. Len(workbook.keyRows) - 1 :
              LET row == workbook.keyRows[i + 1]
              IN  /\ row.row = i + 2
                  /\ \A c \in 1 .. Len(projectData.dailyColumns) :
                        HasFormula(projectData.dailyColumns[c]) =>
                            row.cells[5 + c].formula =
                                replaceRowIndex(projectData.dailyColumns[c].formula[1], row.row)
        /\ \A k \in 0 .. Len(workbook.planRows) - 1 :
              LET row == workbook.planRows[k + 1]
              IN  /\ row.row = k + 5
                  /\ \A c \in 1 .. Len(projectData.columns) :
                        HasFormula(projectData.columns[c]) =>
                            row.cells[2 + c].formula =
                                replaceRowIndex(projectData.columns[c].formula[1], row.row)
        /\ \A j \in 0 .. Len(workbook.pivotRows) - 1 :
              LET row == workbook.pivotRows[j + 1]
              IN  /\ row.row = j + 2
                  /\ \A c \in 1 .. Len(writtenPivotColumns) :
                        row.cells[2 + c].formula =
                            replaceRowIndex(writtenPivotColumns[c].formula, row.row)

\* the bare placeholder was supplied to all three sheets; their second data
\* rows hold the numbers 3, 6 and 3
C11_Witness ==
    /\ Generated
    /\ projectData.hasPivotColumns
    /\ projectData.pivotColumns[1].formula = Placeholder
    /\ projectData.columns[1].formula = <<Placeholder>>
    /\ projectData.dailyColumns[2].formula = <<Placeholder>>
    /\ Len(workbook.keyRows) >= 2 /\ Len(workbook.planRows) >= 2
    /\ Len(workbook.pivotRows) >= 2
    /\ workbook.keyRows[2].row = 3 /\ workbook.keyRows[2].cells[7].formula = <<"3">>
    /\ workbook.planRows[2].row = 6 /\ workbook.planRows[2].cells[3].formula = <<"6">>
    /\ workbook.pivotRows[2].row = 3 /\ workbook.pivotRows[2].cells[3].formula = <<"3">>

\* the text handed to sanitizeSheetName for the plan sheet
PlanNameInput == projectData.name \o PlanSuffix

Legal(ch) == ch \notin IllegalSheetChars

\* C12: sanitizeSheetName returns a text of at most 31 characters that holds
\* none of / \ : * ? [ ] and is the leading part of the input's remaining
\* characters in their original order.
C12_SanitizedSheetName ==
    Generated =>
        LET stripped == SelectSeq(PlanNameInput, Legal)
            out == workbook.sheets[2]
        IN  /\ Len(out) <= 31
            /\ \A k \in 1 .. Len(out) : out[k] \notin {"/", "\\", ":", "*", "?", "[", "]"}
            /\ Len(out) <= Len(stripped)
            /\ \A k \in 1 .. Len(out) : out[k] = stripped[k]
            /\ Len(stripped) <= 31 => out = stripped

\* a name with several illegal characters whose remaining characters exceed
\* the limit
C12_Witness ==
    /\ Generated
    /\ Cardinality({k \in 1 .. Len(PlanNameInput) : ~Legal(PlanNameInput[k])}) >= 3
    /\ Len(SelectSeq(PlanNameInput, Legal)) > 31
    /\ Len(workbook.sheets[2]) = 31

Finished == outcome # "pending"

Failed == outcome \in {"threw", "errorMessage"}

\* the date text denotes a date
Parses(text) == text.ok

\* C13: if startDate or endDate fails to parse as a valid date, the call
\* aborts with a fatal error before any worksheet is added to the workbook
\* and before any schedule item is computed.
C13_InvalidDateAborts ==
    (Finished /\ (~Parses(projectData.startDate) \/ ~Parses(projectData.endDate))) =>
        /\ Failed
        /\ outcome = "threw" => error = <<InvalidDatesError>>
        /\ workbook.sheets = <<>>
        /\ workbook = NoWorkbook
        /\ scheduleItems = <<>> /\ weights = <<>> /\ itemsWithTargets = <<>>
        /\ buffer = <<>>

\* an unparseable end date with a valid start date and two resources
C13_Witness ==
    /\ outcome = "threw"
    /\ Parses(projectData.startDate) /\ ~Parses(projectData.endDate)
    /\ Len(projectData.resources) = 2

\* both dates parse and the end date precedes the start date
ReversedRange ==
    /\ Parses(projectData.startDate) /\ Parses(projectData.endDate)
    /\ End.time < Start.time

\* C14: if endDate precedes startDate (both valid dates) the call raises a
\* fatal input error before any computation: no schedule and no workbook is
\* ever produced for a reversed range.
C14_ReversedRangeRejected ==
    (Finished /\ ReversedRange) =>
        /\ Failed
        /\ error # <<WriteError>>
        /\ scheduleItems = <<>>
        /\ workbook = NoWorkbook
        /\ buffer = <<>>

\* C16: an empty resources list is not an error: the call completes and
\* returns a buffer whose sheets all exist with their header rows and table
\* structures but no data rows, and no target is computed by a division
\* with a non-finite result.  (The call completes unless writeBuffer itself
\* rejects, which no input causes.)
C16_EmptyResources ==
    (Finished /\ Parses(projectData.startDate) /\ Parses(projectData.endDate)
              /\ projectData.resources = <<>>) =>
        /\ outcome = "threw" => error = <<WriteError>>
        /\ scheduleItems = <<>> /\ weights = <<>> /\ itemsWithTargets = <<>>
        /\ \A i \in 1 .. Len(itemsWithTargets) : RFinite(target(i))
        /\ Len(workbook.sheets) >= 3
        /\ \A n \in 1 .. Len(workbook.sheets) : workbook.sheets[n] # <<>>
        /\ Len(workbook.tables) = 2
        /\ workbook.tables[1].name = "DailyProductionTable"
        /\ workbook.tables[1].headerRow
        /\ workbook.tables[1].columns =
              <<"Date", "Day", "Week", "Month", "Name">> \o headersOf(projectData.dailyColumns)
        /\ workbook.tables[1].rows = 0
        /\ workbook.tables[2].headerRow /\ workbook.tables[2].rows = 0
        /\ SubSeq(workbook.tables[2].columns, 1, 2) = <<"Week", "Month">>
        /\ SubSeq(workbook.planHeader, 1, 2) = <<"Date", "Month">>
        /\ Len(workbook.planHeader) = 2 + Len(projectData.columns)
        /\ workbook.keyRows = <<>> /\ workbook.planRows = <<>> /\ workbook.pivotRows = <<>>
        /\ Generated => buffer = <<workbook>>

\* a valid range of two days, no resource, a non-zero goal, and the buffer
C16_Witness ==
    /\ outcome = "returned"
    /\ projectData.resources = <<>>
    /\ ValidRange /\ DayCount = 2
    /\ projectData.goal = 100
    /\ buffer # <<>> /\ buffer[1].sheets = workbook.sheets
    /\ Len(workbook.totalRow) = 1

FileMessages == {m \in 1 .. Len(messages) : messages[m].type = "file"}

\* C17: a generation call has exactly two outcomes: it returns a complete
\* buffer, or it propagates a single error to its caller; when a step
\* raises, the caller observes the failure as an error and no file buffer
\* or download message is produced for the call.
C17_BufferOrError ==
    Finished =>
        \/ /\ buffer = <<workbook>> /\ workbook # NoWorkbook
           /\ error = <<>>
        \/ /\ Len(error) = 1
           /\ buffer = <<>>
           /\ FileMessages = {}

\* what a call with the argument pd computes when it runs alone
aloneItems(pd) ==
    expandSchedule(pd, eachDayOfInterval(NewDate(pd.startDate), NewDate(pd.endDate)))

aloneTargets(pd) == withTargets(aloneItems(pd), computeWeights(aloneItems(pd)), pd.goal)

aloneSheets(pd) == sheetsUtil(pd, aloneItems(pd), aloneTargets(pd), NewDate(pd.startDate))

\* C18: two calls in flight at the same time, interleaved at the
\* serialization await, do not interact: each call's schedule, targets and
\* sheet contents are those of the call run alone, each call builds a
\* workbook of its own and the buffer it returns holds that workbook.
C18_CallsDoNotInteract ==
    \A c \in DOMAIN calls :
        LET call == calls[c]
        IN  /\ call.pc \in {"writing", "returned"} =>
                  /\ call.scheduleItems = aloneItems(call.projectData)
                  /\ call.itemsWithTargets = aloneTargets(call.projectData)
                  /\ workbooks[call.workbook] = aloneSheets(call.projectData)
            /\ call.pc = "returned" => call.buffer = <<aloneSheets(call.projectData)>>
            /\ call.pc = "rejected" => call.buffer = <<>>
            /\ \A d \in DOMAIN calls :
                  (d # c /\ call.pc # "idle" /\ calls[d].pc # "idle") =>
                      call.workbook # calls[d].workbook

\* call 2 began, call 1 began while call 2 was awaiting, and call 1 returned
\* first; the two calls build different sheets
C18_Witness ==
    /\ calls # <<>>
    /\ calls[1].pc = "returned" /\ calls[2].pc = "writing"
    /\ calls[2].workbook = 1 /\ calls[1].workbook = 2
    /\ Len(calls[1].scheduleItems) = 4 /\ Len(calls[2].scheduleItems) = 2
    /\ calls[1].buffer # <<workbooks[1]>>

\* what is wrong with the date range of pd
FaultOf(pd) ==
    IF ~Parses(pd.startDate) /\ ~Parses(pd.endDate) THEN "startDate and endDate"
    ELSE IF ~Parses(pd.startDate) THEN "startDate"
    ELSE IF ~Parses(pd.endDate) THEN "endDate"
    ELSE IF NewDate(pd.endDate).time < NewDate(pd.startDate).time THEN "reversed"
    ELSE "none"

\* C15: the error raised for an invalid date range identifies the failing
\* field: of two calls whose ranges are at fault in different ways (start
\* unparseable, end unparseable, range reversed) each raises an error, and
\* the two errors differ.
C15_ErrorIdentifiesField ==
    \A c, d \in DOMAIN calls :
        LET fc == FaultOf(calls[c].projectData)
            fd == FaultOf(calls[d].projectData)
        IN  ( /\ calls[c].pc # "idle" /\ calls[d].pc # "idle"
              /\ fc \in {"startDate", "endDate", "reversed"}
              /\ fd \in {"startDate", "endDate", "reversed"}
              /\ fc # fd ) =>
                /\ calls[c].pc = "rejected" /\ calls[d].pc = "rejected"
                /\ calls[c].error \notin {<<>>, <<WriteError>>}
                /\ calls[d].error \notin {<<>>, <<WriteError>>}
                /\ calls[c].error # calls[d].error

SamePair(a, b) == a.date = b.date /\ a.name = b.name

\* the planner's items and the uploaded items before the merge
PlannerList == IF projectData.hasActualData THEN projectData.actualData ELSE <<>>
UploadedList == IF uploadedData = <<>> THEN <<>> ELSE uploadedData[1]

\* the uploaded positions whose pair no planner item and no earlier uploaded
\* item has
KeptUploads ==
    { j \in 1 .. Len(UploadedList) :
        /\ \A i \in 1 .. Len(PlannerList) : ~SamePair(PlannerList[i], UploadedList[j])
        /\ \A k \in 1 .. j - 1 : ~SamePair(UploadedList[k], UploadedList[j]) }

MergedAsClaimed ==
    LET kept == SortAscending(KeptUploads)
        merged == PlannerList \o [n \in 1 .. Len(kept) |-> UploadedList[kept[n]]]
    IN  /\ projectData'.actualData = merged
        /\ projectData'.hasActualData = (merged # <<>>)
        /\ \A m \in Len(PlannerList) + 1 .. Len(projectData'.actualData) :
              \A n \in 1 .. m - 1 :
                  ~SamePair(projectData'.actualData[n], projectData'.actualData[m])

\* a step of handleSendMessage: the steps that settle a call and append the
\* handler's message (a call of excelGenerator on its own appends none)
HandlerStep == outcome = "pending" /\ outcome' # "pending" /\ messages' # messages

\* C19: the merge before generation yields the planner's items first, in
\* their order, followed by each uploaded item, in upload order, whose
\* (date, name) pair no item already in the combined list has; no appended
\* item repeats the pair of a planner item or of an earlier appended item,
\* and an empty combined list is passed on as absent actualData.
C19_MergeActualData == [][HandlerStep => MergedAsClaimed]_vars

\* two planner items, two uploaded items with one pair that no planner item
\* has: the first is appended, the second is dropped
C19_Witness ==
    /\ Finished
    /\ uploadedData # <<>> /\ Len(uploadedData[1]) = 2
    /\ SamePair(uploadedData[1][1], uploadedData[1][2])
    /\ projectData.hasActualData /\ Len(projectData.actualData) = 3
    /\ projectData.actualData[1].fields["actual"] = Num(R(5, 1))
    /\ projectData.actualData[2].fields["actual"] = Num(R(5, 1))
    /\ ~SamePair(projectData.actualData[1], projectData.actualData[2])
    /\ projectData.actualData[3] = uploadedData[1][1]
    /\ messages # <<>>

ScheduleDates == {scheduleItems[i].date : i \in 1 .. Len(scheduleItems)}

\* C20: the Production Plan sheet has exactly one data row per unique date
\* of the schedule (D rows when R >= 1, whatever R and whatever duplicate
\* resources), in ascending date order from row 5 on, with the date in
\* column 1 and in column 2 a month formula that refers to the date cell of
\* the same row.
C20_PlanRowPerDate ==
    Generated =>
        LET rows == workbook.planRows
        IN  /\ Len(rows) = Cardinality(ScheduleDates)
            /\ (ValidRange /\ ResourceCount >= 1) => Len(rows) = DayCount
            /\ \A d \in ScheduleDates :
                  Cardinality({k \in 1 .. Len(rows) : rows[k].cells[1].value = DateValue(d)}) = 1
            /\ \A k \in 1 .. Len(rows) :
                  /\ rows[k].row = 5 + (k - 1)
                  /\ rows[k].cells[1].kind = "value"
                  /\ \E d \in ScheduleDates : rows[k].cells[1].value = DateValue(d)
                  /\ rows[k].cells[2] =
                        FormulaCell(<<"TEXT(A", ToString(rows[k].row), ", \"mmmm\")">>)
            /\ \A k, l \in 1 .. Len(rows) :
                  k < l => \E d, e \in ScheduleDates :
                              /\ d < e
                              /\ rows[k].cells[1].value = DateValue(d)
                              /\ rows[l].cells[1].value = DateValue(e)

\* three days, the same resource twice: six items, three plan rows
C20_Witness ==
    /\ Generated /\ ValidRange
    /\ DayCount = 3
    /\ projectData.resources = <<"A", "A">>
    /\ Len(scheduleItems) = 6
    /\ Len(workbook.planRows) = 3
    /\ workbook.planRows[3].row = 7

\* the headers that hold the text 'rate' or the character '%'
RateOrPercentHeaders == {"Completion Rate", "% Done"}

\* C21: the Grand Total row is the row right below the last plan data row;
\* every column other than Date, Month and the columns whose header holds
\* 'rate' or '%' carries a SUM over the data rows of that same column (row 5
\* through the last data row); the Month and the rate or percentage columns
\* carry no computed total.
C21_GrandTotalRow ==
    (Generated /\ Len(workbook.planRows) >= 1) =>
        LET n == Len(workbook.planRows)
            total == workbook.totalRow[1]
            cols == projectData.columns
        IN  /\ total.row = workbook.planRows[n].row + 1
            /\ Len(total.cells) = Len(cols) + 2
            /\ total.cells[1].kind = "value"
            /\ total.cells[2].kind = "empty"
            /\ \A k \in 1 .. Len(cols) :
                  IF cols[k].header \in RateOrPercentHeaders
                  THEN total.cells[k + 2].kind = "empty"
                  ELSE /\ total.cells[k + 2].kind = "formula"
                       /\ total.cells[k + 2].formula
                            = <<"SUM(", Letters[k + 2], "5:", Letters[k + 2],
                                ToString(workbook.planRows[n].row), ")">>

C21_Witness ==
    /\ Generated
    /\ Len(workbook.planRows) = 2
    /\ projectData.columns = <<PlanPercent, PlanCumulative, PlanRate>>
    /\ workbook.totalRow[1].row = 7
    /\ workbook.totalRow[1].cells[4].formula = <<"SUM(", "D", "5:", "D", "6", ")">>
    /\ workbook.totalRow[1].cells[3].kind = "empty"
    /\ workbook.totalRow[1].cells[5].kind = "empty"

\* the position of the column a one-letter column name stands for
ColumnNumber(letter) == CHOOSE c \in 1 .. 26 : <<Letters[c]>> = letter

\* the section of the column at a position of the plan sheet
SectionAt(c) == IF c <= 2 THEN "Target" ELSE projectData.columns[c - 2].section

Covers(range, c) == ColumnNumber(range.startCol) <= c /\ c <= ColumnNumber(range.endCol)

\* C22: the merged section bands of the plan sheet group the columns by
\* section: for every column (Date, Month and each entry of columns, the
\* sections in any order) the band whose merged range covers the column's
\* position is the band of the column's own section, and the bands of two
\* sections do not overlap.
C22_BandsGroupColumns ==
    Generated =>
        LET bands == workbook.merges
        IN  /\ \A c \in 1 .. Len(projectData.columns) + 2 :
                  /\ \E b \in 1 .. Len(bands) : Covers(bands[b].range, c)
                  /\ \A b \in 1 .. Len(bands) :
                        Covers(bands[b].range, c) => bands[b].section = SectionAt(c)
            /\ \A a, b \in 1 .. Len(bands) :
                  bands[a].section # bands[b].section =>
                      ~ \E c \in 1 .. 26 : Covers(bands[a].range, c) /\ Covers(bands[b].range, c)

\* the ISO 8601 week of a day of January 2024 (1 January 2024 is a Monday)
ISOWeek(date) == (((date \div 24) - 1) \div 7) + 1

\* the values of the Week column of the pivot sheet, top to bottom
PivotWeeks == [i \in 1 .. Len(workbook.pivotRows) |-> workbook.pivotRows[i].cells[1].value.r.n]

\* C23: the pivot sheet has exactly one row per distinct ISO week number of
\* the schedule's dates: the week values of its first column are the ISO
\* week numbers of the scheduled days, each once, in ascending order.
C23_PivotRowPerISOWeek ==
    Generated =>
        /\ {PivotWeeks[i] : i \in 1 .. Len(PivotWeeks)}
              = {ISOWeek(scheduleItems[i].date) : i \in 1 .. Len(scheduleItems)}
        /\ \A i, j \in 1 .. Len(PivotWeeks) : i < j => PivotWeeks[i] < PivotWeeks[j]

\* what the spreadsheet evaluates WEEKNUM(A<row>) to for a day of January
\* 2024: weeks start on Sunday and the week that holds 1 January is week 1
\* (31 December 2023 is a Sunday)
WEEKNUM(date) == ((date \div 24) \div 7) + 1

\* the Week values of the rows of DailyProductionTable
RawWeeks == {WEEKNUM(workbook.keyRows[i].cells[1].value.r.n) : i \in 1 .. Len(workbook.keyRows)}

\* C25: every week value of the pivot sheet's Week column is the Week value
\* (WEEKNUM of the row's date) of at least one row of DailyProductionTable,
\* and every week value of the raw table appears in the pivot sheet.
C25_PivotWeeksAreRawWeeks ==
    Generated => {PivotWeeks[i] : i \in 1 .. Len(PivotWeeks)} = RawWeeks

\* the names that differ in case only
SameNameIgnoringCase(a, b) == a = b \/ {a, b} \in {{"a", "A"}, {"b", "B"}}

\* an observation of the calendar day and the resource (ignoring case) of a
\* schedule item
Observes(obs, item) ==
    /\ obs.date.ok
    /\ obs.date.day = item.date \div 24
    /\ SameNameIgnoringCase(obs.name, item.name)

ObservedBy(list, item) == {k \in 1 .. Len(list) : Observes(list[k], item)}

AIEntryWins ==
    \A i \in 1 .. Len(scheduleItems') :
        LET item == scheduleItems'[i]
        IN  (ObservedBy(PlannerList, item) # {} /\ ObservedBy(UploadedList, item) # {}) =>
                /\ \E k \in ObservedBy(PlannerList, item) :
                      item.fields["actual"] = PlannerList[k].fields["actual"]
                /\ \A k \in ObservedBy(UploadedList, item) :
                      item.fields["actual"] # UploadedList[k].fields["actual"]

\* C24: the AI-extracted entry takes precedence end to end: whenever the
\* planner's actualData and the uploaded data both hold an observation of the
\* same calendar day and the same resource name ignoring case, the schedule
\* item carries the planner's actual, also when the two records differ in
\* their date text or name text so that the merge keeps both.
C24_AIEntryTakesPrecedence ==
    [][(HandlerStep /\ outcome' \in {"returned", "fileMessage"}) => AIEntryWins]_vars

WellFormed(ref) ==
    /\ ColumnNumber(ref.startCol) <= ColumnNumber(ref.endCol)
    /\ ref.startRow <= ref.endRow

\* C26: every conditional-formatting range of a generated workbook is
\* well-formed (its first column is not after its last column and its first
\* row is not after its last row), for all inputs, including empty
\* dailyColumns, empty columns, empty pivot columns and a schedule of length
\* zero.
C26_FormattingRangesWellFormed ==
    Generated => \A f \in 1 .. Len(workbook.formats) : WellFormed(workbook.formats[f].ref)

\* C27: for every project name (names with stripped characters, empty names
\* and names of more than 31 characters included) the sheet names of one
\* generated workbook are pairwise distinct: the sanitized plan sheet name
\* is never 'Daily_Production_Key', 'Production_Pivot' or 'Summary_Dashboard'.
C27_SheetNamesDistinct ==
    Generated =>
        /\ \A i, j \in 1 .. Len(workbook.sheets) : i # j => workbook.sheets[i] # workbook.sheets[j]
        /\ workbook.sheets[2] \notin {DailyKeyName, PivotName, DashboardName}

C27_Witness ==
    /\ Generated
    /\ projectData.name = PivotName \o <<":">>
    /\ Len(workbook.sheets) = 4
    /\ workbook.sheets[2] = PivotName \o PlanSuffix
    /\ workbook.sheets[3] = PivotName

\* every agent message of a list belongs to a request sent in the session
AgentMessagesOf(list, id) ==
    \A k \in 1 .. Len(list) : list[k].role = "agent" => list[k].origin = id

\* C28: an agent reply (a text or a file message) to a request sent while
\* session A is active is never appended to another session's messages: when
\* the user starts a new session, loads another one or deletes the active
\* one while the request is in flight, the reply does not end up in, and is
\* not persisted under, the newly active session.
C28_ReplyStaysInItsSession ==
    component = "sessions" =>
        /\ AgentMessagesOf(messages, activeSessionId)
        /\ \A n \in 1 .. Len(sessions) : AgentMessagesOf(sessions[n].messages, sessions[n].id)
        /\ \A n \in 1 .. Len(stored) : AgentMessagesOf(stored[n].messages, stored[n].id)

\* a step of handleSendMessage up to the call of sendMessage: it appends the
\* user's message
SendStep ==
    /\ Len(messages') > Len(messages)
    /\ messages'[Len(messages) + 1].role = "user"

\* C29: after resetChat a live chat session exists for the next message:
\* every handleSendMessage issued after a reset sends the prompt to a chat
\* session (the chat reference is not null when sendMessage is invoked), for
\* any sequence of sends and resets.
C29_ChatLiveAfterReset ==
    [][SendStep => (chatRef' # "null" /\ pending' # <<>> /\ pending'[1].chat # "null")]_vars

SessionIds(list) == {list[n].id : n \in 1 .. Len(list)}

\* C30: once handleDeleteSession(id) has run, no session with that id is in
\* the sessions in memory or in the list written by saveSessions, whatever
\* message updates, typewriter ticks, replies in flight, new sessions and
\* loads follow; and after the deletion of the active session another
\* session (or a fresh one) is active.
C30_DeletedSessionStaysDeleted ==
    component = "sessions" =>
        /\ deletedSessionsRef \cap SessionIds(sessions) = {}
        /\ deletedSessionsRef \cap SessionIds(stored) = {}
        /\ activeSessionId \notin deletedSessionsRef
        /\ activeSessionId \in SessionIds(sessions)

C30_Witness ==
    /\ component = "sessions"
    /\ deletedSessionsRef # {}
    /\ pending = <<>> /\ streamInterval = <<>>
    /\ Len(messages) = 2 /\ messages[2].role = "agent" /\ messages[2].content = 8
    /\ messages[1].origin \in deletedSessionsRef
    /\ Len(sessions) = 1

=============================================================================
